---- MODULE Spec2Model ----
(***************************************************************************)
(* Orbit fusion backend: the disk cache (services/cache_service.py) and    *)
(* the server-side fusion entry point (services/gee_fusion_service.py).    *)
(*                                                                         *)
(* Three specifications share the module's variables:                      *)
(*   SpecCache   CacheService used by concurrent threads                   *)
(*   SpecFusion  GEEFusionService.create_harmonized_fusion                 *)
(*   SpecKey     the two cache-key functions, on pairs of requests         *)
(* Each leaves the variables of the other parts unchanged.                 *)
(***************************************************************************)
EXTENDS Integers, Sequences, FiniteSets, TLC

(***************************************************************************)
(* Bounds of the model.                                                    *)
(***************************************************************************)
\* the clock runs from 0 to MaxTime (cache part: days; fusion part: seconds)
MaxTime == 2
\* cleanup_old_cache is called with max_age_days in 0..MaxAge
MaxAge == 1
\* the clock of the fusion part takes at most MaxFusionTicks steps
MaxFusionTicks == 2
\* the clock runs from 0 to MaxDupTicks while two callers with identical inputs run
MaxDupTicks == 2
\* fuse_mean and fuse_median are called with lists of at most MaxStack arrays
MaxStack == 3
\* fuse_best_pixel is called with lists of at most MaxMaskedStack arrays
MaxMaskedStack == 2

(***************************************************************************)
(* CacheService: values.                                                   *)
(***************************************************************************)
\* threads calling into the one CacheService instance
Threads == {"t1", "t2"}
NoThread == "nobody"

\* cache_key strings handed to cache_result
CacheKeys == {"kA", "kB"}

\* image_bytes: a decodable image and bytes PIL cannot decode
GoodImages == {"img1"}
BadImage == "notAnImage"
ImageBytes == GoodImages \cup {BadImage}

\* the three derivative directories, in the order cache_result writes them
\* and cleanup_old_cache removes them
Derivs == <<"full", "thumb", "preview">>
DerivSet == {"full", "thumb", "preview"}
NoFile == "absent"

\* the metadata argument: a dict with the source parameters, or not a dict
MetaDict == [bounds |-> "b1", start_date |-> "d1", end_date |-> "d2", visualization |-> "true_color", platforms |-> <<"sentinel", "landsat">>]
NoDict == [not_a_dict |-> TRUE]
MetaArgs == {MetaDict, NoDict}

NoEntry == [absent |-> TRUE]
\* the None that cache_result returns from its except branch
Fail == [failed |-> TRUE]

\* len(image_bytes)
ImageLen(img) ==
    IF img = "img1" THEN 10 ELSE 20

\* img.size of the decoded image
OriginalSize(img) ==
    IF img = "img1" THEN <<300, 300>> ELSE <<600, 400>>

\* os.path.getsize of derivative d encoded from image img
FileSize(d, img) ==
    LET base == IF img = "img1" THEN 1 ELSE 5
    IN  CASE d = "full" -> 4 * base
          [] d = "thumb" -> 2 * base
          [] d = "preview" -> base

VARIABLES
    \* ---- CacheService ----
    files,          \* files[d][k]: content of <d>/<k>.webp, or NoFile
    metadata,       \* self.metadata: cache_key -> entry, or NoEntry
    metadata_file,  \* metadata.json as written by _save_metadata (a failing dump is only logged; not modelled)
    lock,           \* self.lock: the thread holding it, or NoThread
    now,            \* the clock read by datetime.now() / time.time()
    cpc,            \* cpc[t]: where thread t is in cache_result / cleanup_old_cache
    cargs,          \* cargs[t]: the arguments of t's call
    cloc,           \* cloc[t]: the locals of t's call
    cres,           \* cres[t]: the value t's call is about to return
    cpre,           \* cpre[t]: files and index as they were when t took the lock (history)
    \* ---- GEEFusionService ----
    initialized,    \* self.initialized
    fusion_cache,   \* self._fusion_cache: cache key -> {timestamp, result}, or NotCached
    out_files,      \* output_dir/<fusion_id>.png: what the picture shows, or NoFile
    fpc,            \* fpc[t]: where request thread t is in create_harmonized_fusion
    freq,           \* freq[t]: the arguments of t's request
    floc,           \* floc[t]: the locals of t's request
    fres,           \* fres[t]: the dict t's request is about to return
    fhist,          \* fhist[t]: the steps t's request has taken (history)
    \* ---- cache keys of a pair of requests ----
    kreq,           \* two requests
    kkeys,          \* their cache keys, once computed
    \* ---- a reader of the CacheService ----
    rpc,            \* where the reader is in get_cached_* / get_cache_status
    rargs,          \* the operation and cache_key of the reader's call
    rres,           \* the value the reader's call is about to return
    rw,             \* the cache_result call for another key that has been in progress since the read began (history)
    \* ---- one call of an array function ----
    ain,            \* the function and its arguments
    aout,           \* what the call returned or raised, once it has run
    \* ---- FusionService ----
    tpc,                   \* where the call of create_harmonized_tiles is
    treq,                  \* its arguments
    futures,               \* the download tasks submitted to the executor, in submission order
    sentinel_arrays,       \* the Sentinel arrays collected so far
    landsat_arrays,        \* the Landsat arrays collected so far
    tres,                  \* what harmonize_tiles, then create_harmonized_tiles, returns
    fused_data_store,      \* self.fused_data_store: fusion_id -> mosaic
    fused_metadata_store,  \* self.fused_metadata_store: fusion_id -> bounds and shape
    tile_cache             \* self._tile_cache: url -> downloaded array

cacheState == <<files, metadata, metadata_file, lock, cpc, cargs, cloc, cres, cpre>>

fusionState == <<initialized, fusion_cache, out_files, fpc, freq, floc, fres, fhist>>

keyState == <<kreq, kkeys>>

readState == <<rpc, rargs, rres, rw>>

analysisState == <<ain, aout>>

tileState == <<tpc, treq, futures, sentinel_arrays, landsat_arrays, tres, fused_data_store, fused_metadata_store, tile_cache>>

vars == <<now, cacheState, fusionState, keyState, readState, analysisState, tileState>>

NoArgs == [op |-> "none"]
NoLocals == [unset |-> TRUE]
NoResult == [pending |-> TRUE]
NoPre == [unset |-> TRUE]

(***************************************************************************)
(* GEEFusionService: values.                                               *)
(***************************************************************************)
\* self._cache_ttl, in seconds
cache_ttl == 3600

\* the clock of the fusion part advances in steps of half the time-to-live
ClockStep == cache_ttl \div 2

\* threads calling create_harmonized_fusion
FThreads == {"r1"}

\* bounds = (west, south, east, north)
Bounds1 == <<77, 28, 78, 29>>

\* geojson: None, a polygon geometry, a Feature wrapping a polygon, a dict that
\* ee.Geometry rejects
NoGeo == [type |-> "None"]
Poly1 == [type |-> "Polygon", coordinates |-> "ring1"]
Poly2 == [type |-> "Polygon", coordinates |-> "ring2"]
Feature2 == [geometry |-> Poly2]
BadGeo == [type |-> "Bogus"]

BothPlatforms == <<"sentinel", "landsat">>
\* the platforms lists of the requests: none, one platform, both
PlatformLists == {<<>>, <<"landsat">>, BothPlatforms}

\* the arguments of create_harmonized_fusion that the model varies
AllRequests ==
    [bounds : {Bounds1}, start_date : {"2024-01-01"}, end_date : {"2024-12-31"},
     cloud_cover : {20}, visualization : {"true_color"}, composite_method : {"median"},
     platforms : PlatformLists, geojson : {NoGeo, Poly1, Feature2, BadGeo},
     create_dataset : BOOLEAN]

\* the requests the model issues: every platform list without polygon, and for both
\* platforms also each geojson and a dataset export
Requests ==
    {r \in AllRequests :
        /\ r.geojson # NoGeo => (r.platforms = BothPlatforms /\ ~r.create_dataset)
        /\ r.create_dataset => r.platforms = BothPlatforms}

\* bool(geojson)
HasGeoJSON(r) ==
    r.geojson # NoGeo

\* cache_key = md5(f"{bounds}_{start_date}_{end_date}_{cloud_cover}_{visualization}_
\* {composite_method}_{platforms}_{bool(geojson)}_v4"): the formatted fields; md5 is
\* taken to be injective on them
FusionCacheKey(r) ==
    <<r.bounds, r.start_date, r.end_date, r.cloud_cover, r.visualization, r.composite_method, r.platforms, HasGeoJSON(r), "v4">>

\* sorted(platforms)
SortedPlatforms(ps) ==
    LET S == {ps[i] : i \in DOMAIN ps}
    IN  (IF "landsat" \in S THEN <<"landsat">> ELSE <<>>) \o (IF "sentinel" \in S THEN <<"sentinel">> ELSE <<>>)

\* CacheService._generate_cache_key(bounds, start_date, end_date, cloud_cover,
\* visualization, platforms)
generate_cache_key(r) ==
    <<r.bounds, r.start_date, r.end_date, r.cloud_cover, r.visualization, SortedPlatforms(r.platforms)>>

FusionKeys == {FusionCacheKey(r) : r \in Requests}

\* fusion_id = f"fusion_{cache_key[:12]}"
FusionId(key) ==
    <<"fusion", key>>

\* [[south, west], [north, east]]
LeafletBounds(b) ==
    <<<<b[2], b[1]>>, <<b[4], b[3]>>>>

\* dims, the thumbnail dimension
dims == 501

\* scales_to_try
scales_to_try == <<10, 30, 100, 250, 500>>

NotCached == [absent |-> TRUE]
NoGeometry == [kind |-> "None"]
NoImage == "None"
NoFused == [mode |-> "None"]
\* dataset_result_path = None
NoPath == [kind |-> "None"]
NoPicture == [absent |-> TRUE]

NoRequest == [none |-> TRUE]
\* filtered_by: the geometry the image collections were filtered and clipped with
NoFLocals == [geometry |-> NoGeometry, filtered_by |-> NoGeometry, sentinel_image |-> NoImage, landsat_image |-> NoImage, fused_image |-> NoFused, dataset_result_path |-> NoPath, scale_i |-> 0, url |-> "None"]
NoHistory == [steps |-> <<>>, entry_at_call |-> NotCached, entry_at_check |-> NotCached, checked_at |-> 0]

\* GEEFusionService.__init__: _try_auto_init may or may not succeed
InitFusionService ==
    /\ initialized \in BOOLEAN
    /\ fusion_cache = [k \in FusionKeys |-> NotCached]
    /\ out_files = [k \in FusionKeys |-> NoPicture]
    /\ fpc = [t \in FThreads |-> "idle"]
    /\ freq = [t \in FThreads |-> NoRequest]
    /\ floc = [t \in FThreads |-> NoFLocals]
    /\ fres = [t \in FThreads |-> NoResult]
    /\ fhist = [t \in FThreads |-> NoHistory]

\* the fusion service is not used
FusionUnused ==
    /\ initialized = FALSE
    /\ fusion_cache = [k \in FusionKeys |-> NotCached]
    /\ out_files = [k \in FusionKeys |-> NoPicture]
    /\ fpc = [t \in FThreads |-> "idle"]
    /\ freq = [t \in FThreads |-> NoRequest]
    /\ floc = [t \in FThreads |-> NoFLocals]
    /\ fres = [t \in FThreads |-> NoResult]
    /\ fhist = [t \in FThreads |-> NoHistory]

\* no pair of requests is under comparison
KeysUnused ==
    /\ kreq = <<NoRequest, NoRequest>>
    /\ kkeys = <<>>

NoWriter == [writer |-> "none"]

\* an empty fused_data_store / fused_metadata_store
EmptyStore == [id \in {} |-> NoResult]

\* the FusionService is constructed and not used
TilesUnused ==
    /\ tpc = "idle"
    /\ treq = NoRequest
    /\ futures = <<>>
    /\ sentinel_arrays = <<>>
    /\ landsat_arrays = <<>>
    /\ tres = NoResult
    /\ fused_data_store = EmptyStore
    /\ fused_metadata_store = EmptyStore
    /\ tile_cache = EmptyStore

\* no read is in progress, no array function is called, no tiles are harmonized
ReadUnused ==
    /\ TilesUnused
    /\ rpc = "idle"
    /\ rargs = NoArgs
    /\ rres = NoResult
    /\ rw = NoWriter
    /\ ain = NoArgs
    /\ aout = NoResult


\* CacheService.__init__ on a fresh cache directory
InitCacheService ==
    /\ files = [d \in DerivSet |-> [k \in CacheKeys |-> NoFile]]
    /\ metadata = [k \in CacheKeys |-> NoEntry]
    /\ metadata_file = [k \in CacheKeys |-> NoEntry]
    /\ lock = NoThread
    /\ now = 0
    /\ cpc = [t \in Threads |-> "idle"]
    /\ cargs = [t \in Threads |-> NoArgs]
    /\ cloc = [t \in Threads |-> NoLocals]
    /\ cres = [t \in Threads |-> NoResult]
    /\ cpre = [t \in Threads |-> NoPre]

(***************************************************************************)
(* CacheService: reads.                                                    *)
(***************************************************************************)
\* the None a getter returns when the file does not exist
NoData == "None"

get_cached_full(k) ==
    IF files["full"][k] # NoFile THEN files["full"][k] ELSE NoData

get_cached_preview(k) ==
    IF files["preview"][k] # NoFile THEN files["preview"][k] ELSE NoData

get_cached_thumbnail(k) ==
    IF files["thumb"][k] # NoFile THEN files["thumb"][k] ELSE NoData

(***************************************************************************)
(* CacheService.cache_result, one step per statement that touches the      *)
(* lock, a file or the index.                                              *)
(***************************************************************************)
CallCacheResult(t, k, img, md) ==
    /\ cpc[t] = "idle"
    /\ cpc' = [cpc EXCEPT ![t] = "cr_lock"]
    /\ cargs' = [cargs EXCEPT ![t] = [op |-> "cache_result", cache_key |-> k, image_bytes |-> img, metadata |-> md]]
    /\ UNCHANGED <<files, metadata, metadata_file, lock, now, cloc, cres, cpre>>
    /\ UNCHANGED <<fusionState, keyState, readState, analysisState, tileState>>

\* cache_result without "with self.lock": the body runs whoever holds the lock
CrAcquire_nolock(t) ==
    /\ cpc[t] = "cr_lock"
    /\ cpc' = [cpc EXCEPT ![t] = "cr_open"]
    /\ cpre' = [cpre EXCEPT ![t] = [files |-> files, metadata |-> metadata, now |-> now]]
    /\ UNCHANGED <<files, metadata, metadata_file, lock, now, cargs, cloc, cres>>
    /\ UNCHANGED <<fusionState, keyState, readState, analysisState, tileState>>

\* with self.lock:
CrAcquire(t) ==
    /\ cpc[t] = "cr_lock"
    /\ lock = NoThread
    /\ lock' = t
    /\ cpc' = [cpc EXCEPT ![t] = "cr_open"]
    /\ cpre' = [cpre EXCEPT ![t] = [files |-> files, metadata |-> metadata, now |-> now]]
    /\ UNCHANGED <<files, metadata, metadata_file, now, cargs, cloc, cres>>
    /\ UNCHANGED <<fusionState, keyState, readState, analysisState, tileState>>

\* the except branch: log, return None
CrFail(t) ==
    /\ cpc' = [cpc EXCEPT ![t] = "cr_ret"]
    /\ cres' = [cres EXCEPT ![t] = Fail]

\* img = Image.open(io.BytesIO(image_bytes)); original_size = img.size
CrOpen(t) ==
    /\ cpc[t] = "cr_open"
    /\ IF cargs[t].image_bytes = BadImage
       THEN /\ CrFail(t)
            /\ UNCHANGED cloc
       ELSE /\ cpc' = [cpc EXCEPT ![t] = "cr_full"]
            /\ cloc' = [cloc EXCEPT ![t] = [original_size |-> OriginalSize(cargs[t].image_bytes)]]
            /\ UNCHANGED cres
    /\ UNCHANGED <<files, metadata, metadata_file, lock, now, cargs, cpre>>
    /\ UNCHANGED <<fusionState, keyState, readState, analysisState, tileState>>

\* img.save(<d>/<key>.webp); <d>_size = os.path.getsize(...)
\* ok = FALSE: the save raises (disk full, permissions) and leaves the file as it was
CrSave(t, d, at, next, ok) ==
    /\ cpc[t] = at
    /\ IF ok
       THEN /\ files' = [files EXCEPT ![d][cargs[t].cache_key] = cargs[t].image_bytes]
            /\ cloc' = [cloc EXCEPT ![t] = [x \in (DOMAIN cloc[t]) \cup {d} |-> IF x = d THEN FileSize(d, cargs[t].image_bytes) ELSE cloc[t][x]]]
            /\ cpc' = [cpc EXCEPT ![t] = next]
            /\ UNCHANGED cres
       ELSE /\ CrFail(t)
            /\ UNCHANGED <<files, cloc>>
    /\ UNCHANGED <<metadata, metadata_file, lock, now, cargs, cpre>>
    /\ UNCHANGED <<fusionState, keyState, readState, analysisState, tileState>>

CrSaveFull(t, ok) ==
    CrSave(t, "full", "cr_full", "cr_thumb", ok)

CrSaveThumb(t, ok) ==
    CrSave(t, "thumb", "cr_thumb", "cr_preview", ok)

\* the preview size is recorded but the preview file is never written
CrSavePreview_skip(t, ok) ==
    /\ cpc[t] = "cr_preview"
    /\ IF ok
       THEN /\ cloc' = [cloc EXCEPT ![t] = [x \in (DOMAIN cloc[t]) \cup {"preview"} |-> IF x = "preview" THEN FileSize("preview", cargs[t].image_bytes) ELSE cloc[t][x]]]
            /\ cpc' = [cpc EXCEPT ![t] = "cr_index"]
            /\ UNCHANGED cres
       ELSE /\ CrFail(t)
            /\ UNCHANGED cloc
    /\ UNCHANGED <<files, metadata, metadata_file, lock, now, cargs, cpre>>
    /\ UNCHANGED <<fusionState, keyState, readState, analysisState, tileState>>

CrSavePreview(t, ok) ==
    CrSave(t, "preview", "cr_preview", "cr_index", ok)

\* the entry cache_result stores in self.metadata
NewEntry(t) ==
    [timestamp |-> now,
     bounds |-> cargs[t].metadata.bounds,
     start_date |-> cargs[t].metadata.start_date,
     end_date |-> cargs[t].metadata.end_date,
     visualization |-> cargs[t].metadata.visualization,
     platforms |-> cargs[t].metadata.platforms,
     original_size |-> cloc[t].original_size,
     full_size_bytes |-> cloc[t].full,
     thumb_size_bytes |-> cloc[t].thumb,
     preview_size_bytes |-> cloc[t].preview,
     compression_ratio |-> <<cloc[t].full, ImageLen(cargs[t].image_bytes)>>]

\* self.metadata[cache_key] = {...}; self._save_metadata(); return {...}
\* metadata.get raises when metadata is not a dict
CrIndex(t) ==
    /\ cpc[t] = "cr_index"
    /\ IF cargs[t].metadata = NoDict
       THEN /\ CrFail(t)
            /\ UNCHANGED <<metadata, metadata_file>>
       ELSE /\ metadata' = [metadata EXCEPT ![cargs[t].cache_key] = NewEntry(t)]
            /\ metadata_file' = metadata'
            /\ cpc' = [cpc EXCEPT ![t] = "cr_ret"]
            /\ cres' = [cres EXCEPT ![t] = [full_size |-> cloc[t].full, preview_size |-> cloc[t].preview, compression_ratio |-> <<cloc[t].full, ImageLen(cargs[t].image_bytes)>>]]
    /\ UNCHANGED <<files, lock, now, cargs, cloc, cpre>>
    /\ UNCHANGED <<fusionState, keyState, readState, analysisState, tileState>>

\* leaving the with block: the lock is released and the caller has the result
CrReturn(t) ==
    /\ cpc[t] = "cr_ret"
    /\ lock' = IF lock = t THEN NoThread ELSE lock
    /\ cpc' = [cpc EXCEPT ![t] = "idle"]
    /\ cargs' = [cargs EXCEPT ![t] = NoArgs]
    /\ cloc' = [cloc EXCEPT ![t] = NoLocals]
    /\ cres' = [cres EXCEPT ![t] = NoResult]
    /\ cpre' = [cpre EXCEPT ![t] = NoPre]
    /\ UNCHANGED <<files, metadata, metadata_file, now>>
    /\ UNCHANGED <<fusionState, keyState, readState, analysisState, tileState>>

(***************************************************************************)
(* CacheService.cleanup_old_cache, one step per key of keys_to_remove.     *)
(***************************************************************************)
CallCleanup(t, max_age_days) ==
    /\ cpc[t] = "idle"
    /\ cpc' = [cpc EXCEPT ![t] = "cl_lock"]
    /\ cargs' = [cargs EXCEPT ![t] = [op |-> "cleanup_old_cache", max_age_days |-> max_age_days]]
    /\ UNCHANGED <<files, metadata, metadata_file, lock, now, cloc, cres, cpre>>
    /\ UNCHANGED <<fusionState, keyState, readState, analysisState, tileState>>

\* "timestamp <= cutoff_time" in place of "timestamp < cutoff_time"
KeysToRemove_le(cutoff_time) ==
    {k \in CacheKeys : metadata[k] # NoEntry /\ metadata[k].timestamp <= cutoff_time}

\* the keys whose timestamp is before the cutoff (first loop of cleanup_old_cache)
KeysToRemove(cutoff_time) ==
    {k \in CacheKeys : metadata[k] # NoEntry /\ metadata[k].timestamp < cutoff_time}

\* with self.lock: cutoff_time = now - max_age_days; collect keys_to_remove
ClAcquire(t) ==
    /\ cpc[t] = "cl_lock"
    /\ lock = NoThread
    /\ lock' = t
    /\ cpc' = [cpc EXCEPT ![t] = "cl_loop"]
    /\ cloc' = [cloc EXCEPT ![t] = [cutoff_time |-> now - cargs[t].max_age_days,
                                    keys_to_remove |-> KeysToRemove(now - cargs[t].max_age_days),
                                    items_removed |-> 0,
                                    space_freed |-> 0,
                                    bytes_deleted |-> 0,
                                    remove_failed |-> {}]]
    /\ cpre' = [cpre EXCEPT ![t] = [files |-> files, metadata |-> metadata, now |-> now]]
    /\ UNCHANGED <<files, metadata, metadata_file, now, cargs, cres>>
    /\ UNCHANGED <<fusionState, keyState, readState, analysisState, tileState>>

\* position of a derivative directory in the removal loop; 4 = no removal fails
DerivIndex(failAt) ==
    IF failAt = "none" THEN 4 ELSE CHOOSE i \in 1..3 : Derivs[i] = failAt

\* size of the file of key k in directory i, 0 when it does not exist
SizeAt(i, k) ==
    IF files[Derivs[i]][k] = NoFile THEN 0 ELSE FileSize(Derivs[i], files[Derivs[i]][k])

RECURSIVE SumSizes(_, _)
SumSizes(n, k) ==
    IF n = 0 THEN 0 ELSE SizeAt(n, k) + SumSizes(n - 1, k)

\* space_freed += os.path.getsize(file_path), for every existing file up to and
\* including the one whose os.remove raises
SizesCounted(k, failAt) ==
    SumSizes(IF failAt = "none" THEN 3 ELSE DerivIndex(failAt), k)

\* one iteration of "for cache_key in keys_to_remove": the three files are removed
\* in order; failAt names the file whose os.remove raises (caught and logged by the
\* except of this iteration), "none" when every removal succeeds.
\* bytes_deleted (the sizes of the files really removed) and remove_failed (the keys
\* whose iteration raised) are history, kept for the properties below.
ClRemoveKey(t, k, failAt) ==
    /\ cpc[t] = "cl_loop"
    /\ k \in cloc[t].keys_to_remove
    /\ failAt # "none" => files[failAt][k] # NoFile
    /\ files' = [d \in DerivSet |-> [x \in CacheKeys |->
                    IF x = k /\ DerivIndex(d) < DerivIndex(failAt) THEN NoFile ELSE files[d][x]]]
    /\ metadata' = IF failAt = "none" THEN [metadata EXCEPT ![k] = NoEntry] ELSE metadata
    /\ cloc' = [cloc EXCEPT ![t].keys_to_remove = @ \ {k},
                            ![t].items_removed = IF failAt = "none" THEN @ + 1 ELSE @,
                            ![t].space_freed = @ + SizesCounted(k, failAt),
                            ![t].bytes_deleted = @ + SumSizes(DerivIndex(failAt) - 1, k),
                            ![t].remove_failed = IF failAt = "none" THEN @ ELSE @ \cup {k}]
    /\ UNCHANGED <<metadata_file, lock, now, cpc, cargs, cres, cpre>>
    /\ UNCHANGED <<fusionState, keyState, readState, analysisState, tileState>>

\* bytes per megabyte, the divisor of space_freed_mb
MB == 1024 * 1024

\* if items_removed > 0: self._save_metadata(); return the statistics
ClFinish(t) ==
    /\ cpc[t] = "cl_loop"
    /\ cloc[t].keys_to_remove = {}
    /\ IF cloc[t].items_removed > 0
       THEN metadata_file' = metadata
       ELSE UNCHANGED metadata_file
    /\ cres' = [cres EXCEPT ![t] = [items_removed |-> cloc[t].items_removed, space_freed_mb |-> <<cloc[t].space_freed, MB>>]]
    /\ cpc' = [cpc EXCEPT ![t] = "cl_ret"]
    /\ UNCHANGED <<files, metadata, lock, now, cargs, cloc, cpre>>
    /\ UNCHANGED <<fusionState, keyState, readState, analysisState, tileState>>

ClReturn(t) ==
    /\ cpc[t] = "cl_ret"
    /\ lock' = IF lock = t THEN NoThread ELSE lock
    /\ cpc' = [cpc EXCEPT ![t] = "idle"]
    /\ cargs' = [cargs EXCEPT ![t] = NoArgs]
    /\ cloc' = [cloc EXCEPT ![t] = NoLocals]
    /\ cres' = [cres EXCEPT ![t] = NoResult]
    /\ cpre' = [cpre EXCEPT ![t] = NoPre]
    /\ UNCHANGED <<files, metadata, metadata_file, now>>
    /\ UNCHANGED <<fusionState, keyState, readState, analysisState, tileState>>

\* time passes
Tick ==
    /\ now < MaxTime
    /\ now' = now + 1
    /\ UNCHANGED <<files, metadata, metadata_file, lock, cpc, cargs, cloc, cres, cpre>>
    /\ UNCHANGED <<fusionState, keyState, readState, analysisState, tileState>>

NextCache ==
    \/ \E t \in Threads, k \in CacheKeys, img \in ImageBytes, md \in MetaArgs : CallCacheResult(t, k, img, md)
    \/ \E t \in Threads : CrAcquire(t)
    \/ \E t \in Threads : CrOpen(t)
    \/ \E t \in Threads, ok \in BOOLEAN : CrSaveFull(t, ok)
    \/ \E t \in Threads, ok \in BOOLEAN : CrSaveThumb(t, ok)
    \/ \E t \in Threads, ok \in BOOLEAN : CrSavePreview(t, ok)
    \/ \E t \in Threads : CrIndex(t)
    \/ \E t \in Threads : CrReturn(t)
    \/ \E t \in Threads, a \in 0..MaxAge : CallCleanup(t, a)
    \/ \E t \in Threads : ClAcquire(t)
    \/ \E t \in Threads, k \in CacheKeys, failAt \in DerivSet \cup {"none"} : ClRemoveKey(t, k, failAt)
    \/ \E t \in Threads : ClFinish(t)
    \/ \E t \in Threads : ClReturn(t)
    \/ Tick

\* the cache is not used
CacheUnused ==
    InitCacheService

InitCache ==
    /\ InitCacheService
    /\ FusionUnused
    /\ KeysUnused
    /\ ReadUnused

SpecCache == InitCache /\ [][NextCache]_vars

(***************************************************************************)
(* CacheService: a reader thread calling get_cached_full,                  *)
(* get_cached_preview, get_cached_thumbnail and get_cache_status while     *)
(* other threads call cache_result.                                        *)
(***************************************************************************)
ReadOps == {"full", "preview", "thumbnail", "status"}

\* self.full_dir / self.preview_dir / self.thumb_dir
DirOf(op) ==
    CASE op = "full" -> "full"
      [] op = "preview" -> "preview"
      [] op = "thumbnail" -> "thumb"

\* what get_cached_<op>(k) returns
Getter(op, k) ==
    CASE op = "full" -> get_cached_full(k)
      [] op = "preview" -> get_cached_preview(k)
      [] op = "thumbnail" -> get_cached_thumbnail(k)

\* the dict get_cache_status returns for an index entry; each quotient is kept as
\* the pair <<numerator, denominator>>
StatusOf(meta) ==
    [exists |-> TRUE,
     timestamp |-> meta.timestamp,
     full_size_mb |-> <<meta.full_size_bytes, 1024 * 1024>>,
     preview_size_kb |-> <<meta.preview_size_bytes, 1024>>,
     compression_ratio |-> meta.compression_ratio]

\* the cache_result call for a key other than k that is inside its with block
WriterOfOtherKey(k) ==
    IF lock # NoThread /\ cargs[lock].op = "cache_result" /\ cargs[lock].cache_key # k
    THEN [writer |-> lock, cache_key |-> cargs[lock].cache_key, pre |-> cpre[lock]]
    ELSE NoWriter

\* the call recorded in rw, if it is still inside its with block
StillWriting ==
    IF rw # NoWriter /\ lock = rw.writer /\ cargs[lock].cache_key = rw.cache_key /\ cpre[lock] = rw.pre
    THEN rw
    ELSE NoWriter

\* a getter that takes self.lock before it reads
RCall_locked(op, k) ==
    /\ rpc = "idle"
    /\ lock = NoThread
    /\ rpc' = IF op = "status" THEN "status_in" ELSE "exists"
    /\ rargs' = [op |-> op, cache_key |-> k]
    /\ rw' = WriterOfOtherKey(k)
    /\ UNCHANGED rres
    /\ UNCHANGED <<now, cacheState, fusionState, keyState, analysisState, tileState>>

\* get_cached_full(cache_key) / get_cached_preview / get_cached_thumbnail /
\* get_cache_status: none of them takes self.lock
RCall(op, k) ==
    /\ rpc = "idle"
    /\ rpc' = IF op = "status" THEN "status_in" ELSE "exists"
    /\ rargs' = [op |-> op, cache_key |-> k]
    /\ rw' = WriterOfOtherKey(k)
    /\ UNCHANGED rres
    /\ UNCHANGED <<now, cacheState, fusionState, keyState, analysisState, tileState>>

\* if file_path.exists(): ... else: return None
RExists ==
    /\ rpc = "exists"
    /\ IF files[DirOf(rargs.op)][rargs.cache_key] # NoFile
       THEN /\ rpc' = "read"
            /\ UNCHANGED rres
       ELSE /\ rpc' = "done"
            /\ rres' = NoData
    /\ rw' = StillWriting
    /\ UNCHANGED rargs
    /\ UNCHANGED <<now, cacheState, fusionState, keyState, analysisState, tileState>>

\* with open(file_path, 'rb') as f: return f.read(); an exception gives None
RRead ==
    /\ rpc = "read"
    /\ rpc' = "done"
    /\ rres' = Getter(rargs.op, rargs.cache_key)
    /\ rw' = StillWriting
    /\ UNCHANGED rargs
    /\ UNCHANGED <<now, cacheState, fusionState, keyState, analysisState, tileState>>

\* if cache_key not in self.metadata: return {'exists': False}
RStatusIn ==
    /\ rpc = "status_in"
    /\ IF metadata[rargs.cache_key] = NoEntry
       THEN /\ rpc' = "done"
            /\ rres' = [exists |-> FALSE]
       ELSE /\ rpc' = "status_get"
            /\ UNCHANGED rres
    /\ rw' = StillWriting
    /\ UNCHANGED rargs
    /\ UNCHANGED <<now, cacheState, fusionState, keyState, analysisState, tileState>>

\* meta = self.metadata[cache_key]; return {...}
RStatusGet ==
    /\ rpc = "status_get"
    /\ rpc' = "done"
    /\ rres' = IF metadata[rargs.cache_key] = NoEntry
               THEN [raised |-> "KeyError"]
               ELSE StatusOf(metadata[rargs.cache_key])
    /\ rw' = StillWriting
    /\ UNCHANGED rargs
    /\ UNCHANGED <<now, cacheState, fusionState, keyState, analysisState, tileState>>

\* the caller has the result
RReturn ==
    /\ rpc = "done"
    /\ rpc' = "idle"
    /\ rargs' = NoArgs
    /\ rres' = NoResult
    /\ rw' = NoWriter
    /\ UNCHANGED <<now, cacheState, fusionState, keyState, analysisState, tileState>>

\* the next step of the read in progress
RStep ==
    \/ RExists
    \/ RRead
    \/ RStatusIn
    \/ RStatusGet
    \/ RReturn

\* the thread that calls cache_result while the reader reads
Writers == {"t1"}

NextRead ==
    \/ \E t \in Writers, k \in CacheKeys, img \in ImageBytes, md \in MetaArgs : CallCacheResult(t, k, img, md)
    \/ \E t \in Writers : CrAcquire(t)
    \/ \E t \in Writers : CrOpen(t)
    \/ \E t \in Writers, ok \in BOOLEAN : CrSaveFull(t, ok)
    \/ \E t \in Writers, ok \in BOOLEAN : CrSaveThumb(t, ok)
    \/ \E t \in Writers, ok \in BOOLEAN : CrSavePreview(t, ok)
    \/ \E t \in Writers : CrIndex(t)
    \/ \E t \in Writers : CrReturn(t)
    \/ \E op \in ReadOps, k \in CacheKeys : RCall(op, k)
    \/ RExists
    \/ RRead
    \/ RStatusIn
    \/ RStatusGet
    \/ RReturn

SpecRead == InitCache /\ [][NextRead]_vars

(***************************************************************************)
(* GEEFusionService.create_harmonized_fusion, one step per call to Earth   *)
(* Engine, the network, the file system or the result cache.               *)
(***************************************************************************)
\* the request's cache key
KeyOf(t) ==
    FusionCacheKey(freq[t])

Step(name, outcome) ==
    [step |-> name, outcome |-> outcome]

\* the request takes a step and goes on at pc next
FGoto(t, next, name, outcome) ==
    /\ fpc' = [fpc EXCEPT ![t] = next]
    /\ fhist' = [fhist EXCEPT ![t].steps = Append(@, Step(name, outcome))]

\* return {'success': False, 'error': error}
FFailWith(t, error, name, outcome) ==
    /\ fpc' = [fpc EXCEPT ![t] = "done"]
    /\ fres' = [fres EXCEPT ![t] = [success |-> FALSE, error |-> error]]
    /\ fhist' = [fhist EXCEPT ![t].steps = Append(@, Step(name, outcome))]

FCall(t, r) ==
    /\ fpc[t] = "idle"
    /\ fpc' = [fpc EXCEPT ![t] = "init"]
    /\ freq' = [freq EXCEPT ![t] = r]
    /\ floc' = [floc EXCEPT ![t] = NoFLocals]
    /\ fhist' = [fhist EXCEPT ![t] = [NoHistory EXCEPT !.entry_at_call = fusion_cache[FusionCacheKey(r)]]]
    /\ UNCHANGED <<initialized, fusion_cache, out_files, fres>>
    /\ UNCHANGED <<now, cacheState, keyState, readState, analysisState, tileState>>

\* if not self.initialized: if not self.initialize_gee(): return failure
FInit(t, ok) ==
    /\ fpc[t] = "init"
    /\ IF initialized
       THEN /\ ok
            /\ FGoto(t, "cache", "init", "already")
            /\ UNCHANGED <<initialized, fres>>
       ELSE IF ok
            THEN /\ initialized' = TRUE
                 /\ FGoto(t, "cache", "init", "ok")
                 /\ UNCHANGED fres
            ELSE /\ FFailWith(t, "GEE initialization failed", "init", "failed")
                 /\ UNCHANGED initialized
    /\ UNCHANGED <<fusion_cache, out_files, freq, floc>>
    /\ UNCHANGED <<now, cacheState, keyState, readState, analysisState, tileState>>

\* time.time() - cached.get('timestamp', 0) < self._cache_ttl, with <= for <
Fresh_le(entry) ==
    now - entry.timestamp <= cache_ttl

\* time.time() - cached.get('timestamp', 0) < self._cache_ttl
Fresh(entry) ==
    now - entry.timestamp < cache_ttl

\* a result cache that makes a request wait while another request for the same key
\* is computing
FCheckCache_dedup(t) ==
    /\ fpc[t] = "cache"
    /\ ~\E u \in (DOMAIN fpc) \ {t} : fpc[u] \notin {"idle", "init", "cache", "done"} /\ KeyOf(u) = KeyOf(t)
    /\ IF fusion_cache[KeyOf(t)] # NotCached /\ Fresh(fusion_cache[KeyOf(t)])
       THEN /\ fpc' = [fpc EXCEPT ![t] = "done"]
            /\ fres' = [fres EXCEPT ![t] = fusion_cache[KeyOf(t)].result]
            /\ fhist' = [fhist EXCEPT ![t].steps = Append(@, Step("cache", "hit")),
                                      ![t].entry_at_check = fusion_cache[KeyOf(t)],
                                      ![t].checked_at = now]
       ELSE /\ fpc' = [fpc EXCEPT ![t] = "geometry"]
            /\ fhist' = [fhist EXCEPT ![t].steps = Append(@, Step("cache", "miss")),
                                      ![t].entry_at_check = fusion_cache[KeyOf(t)],
                                      ![t].checked_at = now]
            /\ UNCHANGED fres
    /\ UNCHANGED <<initialized, fusion_cache, out_files, freq, floc>>
    /\ UNCHANGED <<now, cacheState, keyState, readState, analysisState, tileState>>

\* if cache_key in self._fusion_cache: ... return cached['result']
FCheckCache(t) ==
    /\ fpc[t] = "cache"
    /\ IF fusion_cache[KeyOf(t)] # NotCached /\ Fresh(fusion_cache[KeyOf(t)])
       THEN /\ fpc' = [fpc EXCEPT ![t] = "done"]
            /\ fres' = [fres EXCEPT ![t] = fusion_cache[KeyOf(t)].result]
            /\ fhist' = [fhist EXCEPT ![t].steps = Append(@, Step("cache", "hit")),
                                      ![t].entry_at_check = fusion_cache[KeyOf(t)],
                                      ![t].checked_at = now]
       ELSE /\ fpc' = [fpc EXCEPT ![t] = "geometry"]
            /\ fhist' = [fhist EXCEPT ![t].steps = Append(@, Step("cache", "miss")),
                                      ![t].entry_at_check = fusion_cache[KeyOf(t)],
                                      ![t].checked_at = now]
            /\ UNCHANGED fres
    /\ UNCHANGED <<initialized, fusion_cache, out_files, freq, floc>>
    /\ UNCHANGED <<now, cacheState, keyState, readState, analysisState, tileState>>

\* geom_data = geojson['geometry'] if 'geometry' in geojson else geojson
GeomData(geojson) ==
    IF "geometry" \in DOMAIN geojson THEN geojson.geometry ELSE geojson

\* ee.Geometry(geom_data) accepts the dict
GeometryAccepted(geom_data) ==
    "type" \in DOMAIN geom_data /\ geom_data.type = "Polygon"

\* a geometry step that always takes the rectangle of bounds
FGeometry_rectangle(t) ==
    /\ fpc[t] = "geometry"
    /\ floc' = [floc EXCEPT ![t].geometry = [kind |-> "rectangle", of |-> freq[t].bounds]]
    /\ FGoto(t, "fetch_sentinel", "geometry", "rectangle")
    /\ UNCHANGED fres
    /\ UNCHANGED <<initialized, fusion_cache, out_files, freq>>
    /\ UNCHANGED <<now, cacheState, keyState, readState, analysisState, tileState>>

\* Determine Geometry: the polygon when geojson is given, else the rectangle of bounds
FGeometry(t) ==
    /\ fpc[t] = "geometry"
    /\ IF HasGeoJSON(freq[t])
       THEN IF GeometryAccepted(GeomData(freq[t].geojson))
            THEN /\ floc' = [floc EXCEPT ![t].geometry = [kind |-> "polygon", of |-> GeomData(freq[t].geojson).coordinates]]
                 /\ FGoto(t, "fetch_sentinel", "geometry", "polygon")
                 /\ UNCHANGED fres
            ELSE /\ FFailWith(t, "Invalid geometry", "geometry", "failed")
                 /\ UNCHANGED floc
       ELSE /\ floc' = [floc EXCEPT ![t].geometry = [kind |-> "rectangle", of |-> freq[t].bounds]]
            /\ FGoto(t, "fetch_sentinel", "geometry", "rectangle")
            /\ UNCHANGED fres
    /\ UNCHANGED <<initialized, fusion_cache, out_files, freq>>
    /\ UNCHANGED <<now, cacheState, keyState, readState, analysisState, tileState>>

\* 'sentinel' in platforms
Requested(platform, platforms) ==
    \E i \in DOMAIN platforms : platforms[i] = platform

\* Step 1: sentinel_image = self.get_sentinel_image(...) when requested;
\* found = FALSE: get_sentinel_image returns None
FFetchSentinel(t, found) ==
    /\ fpc[t] = "fetch_sentinel"
    /\ IF Requested("sentinel", freq[t].platforms)
       THEN /\ floc' = [floc EXCEPT ![t].sentinel_image = IF found THEN "S2" ELSE NoImage,
                                    ![t].filtered_by = floc[t].geometry]
            /\ FGoto(t, "fetch_landsat", "fetch_sentinel", IF found THEN "found" ELSE "none")
       ELSE /\ found
            /\ FGoto(t, "fetch_landsat", "fetch_sentinel", "not requested")
            /\ UNCHANGED floc
    /\ UNCHANGED <<initialized, fusion_cache, out_files, freq, fres>>
    /\ UNCHANGED <<now, cacheState, keyState, readState, analysisState, tileState>>

\* a no-imagery test that fails a request when only the Sentinel image is missing
NoImageryFound_sentinel(sentinel_image, landsat_image) ==
    sentinel_image = NoImage

\* if sentinel_image is None and landsat_image is None
NoImageryFound(sentinel_image, landsat_image) ==
    sentinel_image = NoImage /\ landsat_image = NoImage

\* Step 2: landsat_image = self.get_landsat_image(...) when requested, then the
\* no-imagery check
FFetchLandsat(t, found) ==
    /\ fpc[t] = "fetch_landsat"
    /\ Requested("landsat", freq[t].platforms) \/ found
    /\ LET landsat_image == IF Requested("landsat", freq[t].platforms) /\ found THEN "L8" ELSE NoImage
           outcome == IF ~Requested("landsat", freq[t].platforms) THEN "not requested" ELSE IF found THEN "found" ELSE "none"
       IN  /\ floc' = [floc EXCEPT ![t].landsat_image = landsat_image,
                                    ![t].filtered_by = IF Requested("landsat", freq[t].platforms) THEN floc[t].geometry ELSE @]
           /\ IF NoImageryFound(floc[t].sentinel_image, landsat_image)
              THEN FFailWith(t, "No imagery found for selected platforms", "fetch_landsat", outcome)
              ELSE FGoto(t, "fuse", "fetch_landsat", outcome) /\ UNCHANGED fres
    /\ UNCHANGED <<initialized, fusion_cache, out_files, freq>>
    /\ UNCHANGED <<now, cacheState, keyState, readState, analysisState, tileState>>

\* fuse_collections_server_side: which branch builds the picture
FusionMode(sentinel_image, landsat_image) ==
    IF sentinel_image = NoImage /\ landsat_image = NoImage THEN "ValueError"
    ELSE IF sentinel_image = NoImage THEN "landsat_only"
    ELSE IF landsat_image = NoImage THEN "sentinel_only"
    ELSE "fused"

\* Step 3: fused_image = fuse_collections_server_side(...).clip(geometry);
\* ok = FALSE: an Earth Engine call raises, and the outer except returns
FFuse(t, ok) ==
    /\ fpc[t] = "fuse"
    /\ IF ok /\ FusionMode(floc[t].sentinel_image, floc[t].landsat_image) # "ValueError"
       THEN /\ floc' = [floc EXCEPT ![t].fused_image = [mode |-> FusionMode(floc[t].sentinel_image, floc[t].landsat_image),
                                                        visualization |-> freq[t].visualization,
                                                        clip |-> floc[t].geometry],
                                    ![t].scale_i = 1]
            /\ FGoto(t, IF freq[t].create_dataset THEN "export" ELSE "thumb", "fuse", "ok")
            /\ UNCHANGED fres
       ELSE /\ FFailWith(t, "Internal Error", "fuse", "raised")
            /\ UNCHANGED floc
    /\ UNCHANGED <<initialized, fusion_cache, out_files, freq>>
    /\ UNCHANGED <<now, cacheState, keyState, readState, analysisState, tileState>>

ExportOutcomes == {"saved", "too large", "other error"}

\* an export loop that goes on to the next scale after an error of any kind
FExport_retry_any(t, outcome) ==
    /\ fpc[t] = "export"
    /\ LET i == floc[t].scale_i
           scale == scales_to_try[i]
       IN  IF outcome = "saved"
           THEN /\ floc' = [floc EXCEPT ![t].dataset_result_path = [kind |-> "saved", scale |-> scale]]
                /\ FGoto(t, "thumb", "export", "saved")
           ELSE IF i < Len(scales_to_try)
           THEN /\ floc' = [floc EXCEPT ![t].scale_i = i + 1]
                /\ FGoto(t, "export", "export", outcome)
           ELSE /\ floc' = [floc EXCEPT ![t].dataset_result_path = [kind |-> "Error: Region too large for all attempts.", scale |-> 0]]
                /\ FGoto(t, "thumb", "export", outcome)
    /\ UNCHANGED <<initialized, fusion_cache, out_files, freq, fres>>
    /\ UNCHANGED <<now, cacheState, keyState, readState, analysisState, tileState>>

\* Step 4, one pass of "for scale in scales_to_try": getDownloadURL and urlretrieve
\* at this scale.  "too large": the error text names the request-size limit
FExport(t, outcome) ==
    /\ fpc[t] = "export"
    /\ LET i == floc[t].scale_i
           scale == scales_to_try[i]
       IN  CASE outcome = "saved" ->
                    /\ floc' = [floc EXCEPT ![t].dataset_result_path = [kind |-> "saved", scale |-> scale]]
                    /\ FGoto(t, "thumb", "export", "saved")
             [] outcome = "other error" ->
                    /\ floc' = [floc EXCEPT ![t].dataset_result_path = [kind |-> "Error", scale |-> scale]]
                    /\ FGoto(t, "thumb", "export", "other error")
             [] outcome = "too large" ->
                    IF i < Len(scales_to_try)
                    THEN /\ floc' = [floc EXCEPT ![t].scale_i = i + 1]
                         /\ FGoto(t, "export", "export", "too large")
                    ELSE /\ floc' = [floc EXCEPT ![t].dataset_result_path = [kind |-> "Error: Region too large for all attempts.", scale |-> 0]]
                         /\ FGoto(t, "thumb", "export", "too large")
    /\ UNCHANGED <<initialized, fusion_cache, out_files, freq, fres>>
    /\ UNCHANGED <<now, cacheState, keyState, readState, analysisState, tileState>>

ThumbOutcomes == {"url", "EEException", "other exception"}

\* an exception of getThumbURL that is not an EEException leaves the call with none
\* of the handlers run
FThumb_uncaught(t, outcome) ==
    /\ fpc[t] = "thumb"
    /\ CASE outcome = "url" ->
                /\ floc' = [floc EXCEPT ![t].url = "url"]
                /\ FGoto(t, "download", "thumb", "url")
                /\ UNCHANGED fres
         [] outcome = "EEException" ->
                /\ FFailWith(t, "GEE Error", "thumb", "EEException")
                /\ UNCHANGED floc
         [] outcome = "other exception" ->
                /\ FGoto(t, "raised", "thumb", "other exception")
                /\ UNCHANGED <<floc, fres>>
    /\ UNCHANGED <<initialized, fusion_cache, out_files, freq>>
    /\ UNCHANGED <<now, cacheState, keyState, readState, analysisState, tileState>>

\* Step 4: url = fused_image.getThumbURL(thumb_params); an EEException is returned
\* as "GEE Error", any other exception reaches the outer except
FThumb(t, outcome) ==
    /\ fpc[t] = "thumb"
    /\ CASE outcome = "url" ->
                /\ floc' = [floc EXCEPT ![t].url = "url"]
                /\ FGoto(t, "download", "thumb", "url")
                /\ UNCHANGED fres
         [] outcome = "EEException" ->
                /\ FFailWith(t, "GEE Error", "thumb", "EEException")
                /\ UNCHANGED floc
         [] outcome = "other exception" ->
                /\ FFailWith(t, "Internal Error", "thumb", "other exception")
                /\ UNCHANGED floc
    /\ UNCHANGED <<initialized, fusion_cache, out_files, freq>>
    /\ UNCHANGED <<now, cacheState, keyState, readState, analysisState, tileState>>

DownloadOutcomes == {"200", "other status", "exception"}

\* what the downloaded PNG shows: the fused picture's visualization, clipped to the
\* geometry (region = geometry in thumb_params)
Picture(t) ==
    [region |-> floc[t].fused_image.clip, visualization |-> floc[t].fused_image.visualization]

\* Step 5: client.get(url); on status 200 the PNG is written to output_path
FDownload(t, outcome) ==
    /\ fpc[t] = "download"
    /\ CASE outcome = "200" ->
                /\ out_files' = [out_files EXCEPT ![KeyOf(t)] = Picture(t)]
                /\ FGoto(t, "store", "download", "200")
                /\ UNCHANGED fres
         [] outcome = "other status" ->
                /\ FFailWith(t, "GEE Error (status)", "download", "other status")
                /\ UNCHANGED out_files
         [] outcome = "exception" ->
                /\ FFailWith(t, "Download failed", "download", "exception")
                /\ UNCHANGED out_files
    /\ UNCHANGED <<initialized, fusion_cache, freq, floc>>
    /\ UNCHANGED <<now, cacheState, keyState, readState, analysisState, tileState>>

\* the success dict
SuccessResult(t) ==
    [success |-> TRUE,
     fusion_id |-> FusionId(KeyOf(t)),
     imageUrl |-> <<"/static/fusion", FusionId(KeyOf(t))>>,
     bounds |-> LeafletBounds(freq[t].bounds),
     shape |-> dims,
     visualization |-> freq[t].visualization,
     dataset_path |-> floc[t].dataset_result_path]

\* self._fusion_cache[cache_key] = {'timestamp': time.time(), 'result': result}
FStore(t) ==
    /\ fpc[t] = "store"
    /\ fusion_cache' = [fusion_cache EXCEPT ![KeyOf(t)] = [timestamp |-> now, result |-> SuccessResult(t)]]
    /\ fres' = [fres EXCEPT ![t] = SuccessResult(t)]
    /\ FGoto(t, "done", "store", "stored")
    /\ UNCHANGED <<initialized, out_files, freq, floc>>
    /\ UNCHANGED <<now, cacheState, keyState, readState, analysisState, tileState>>

\* the caller has the dict
FReturn(t) ==
    /\ fpc[t] = "done"
    /\ fpc' = [fpc EXCEPT ![t] = "idle"]
    /\ freq' = [freq EXCEPT ![t] = NoRequest]
    /\ floc' = [floc EXCEPT ![t] = NoFLocals]
    /\ fres' = [fres EXCEPT ![t] = NoResult]
    /\ fhist' = [fhist EXCEPT ![t] = NoHistory]
    /\ UNCHANGED <<initialized, fusion_cache, out_files>>
    /\ UNCHANGED <<now, cacheState, keyState, readState, analysisState, tileState>>

\* time passes
TickFusion ==
    /\ now < MaxFusionTicks * ClockStep
    /\ now' = now + ClockStep
    /\ UNCHANGED <<cacheState, fusionState, keyState, readState, analysisState, tileState>>

\* the next step of request thread t inside create_harmonized_fusion
FStep(t) ==
    \/ \E ok \in BOOLEAN : FInit(t, ok)
    \/ FCheckCache(t)
    \/ FGeometry(t)
    \/ \E found \in BOOLEAN : FFetchSentinel(t, found)
    \/ \E found \in BOOLEAN : FFetchLandsat(t, found)
    \/ \E ok \in BOOLEAN : FFuse(t, ok)
    \/ \E outcome \in ExportOutcomes : FExport(t, outcome)
    \/ \E outcome \in ThumbOutcomes : FThumb(t, outcome)
    \/ \E outcome \in DownloadOutcomes : FDownload(t, outcome)
    \/ FStore(t)

NextFusion ==
    \/ \E t \in FThreads, r \in Requests : FCall(t, r)
    \/ \E t \in FThreads, ok \in BOOLEAN : FInit(t, ok)
    \/ \E t \in FThreads : FCheckCache(t)
    \/ \E t \in FThreads : FGeometry(t)
    \/ \E t \in FThreads, found \in BOOLEAN : FFetchSentinel(t, found)
    \/ \E t \in FThreads, found \in BOOLEAN : FFetchLandsat(t, found)
    \/ \E t \in FThreads, ok \in BOOLEAN : FFuse(t, ok)
    \/ \E t \in FThreads, outcome \in ExportOutcomes : FExport(t, outcome)
    \/ \E t \in FThreads, outcome \in ThumbOutcomes : FThumb(t, outcome)
    \/ \E t \in FThreads, outcome \in DownloadOutcomes : FDownload(t, outcome)
    \/ \E t \in FThreads : FStore(t)
    \/ \E t \in FThreads : FReturn(t)
    \/ TickFusion

InitFusion ==
    /\ CacheUnused
    /\ InitFusionService
    /\ KeysUnused
    /\ ReadUnused

SpecFusion == InitFusion /\ [][NextFusion]_vars

(***************************************************************************)
(* Two callers with identical inputs at the same time: both call           *)
(* create_harmonized_fusion with one request, or both call cache_result    *)
(* with one key, image and metadata.  The two services share no state.     *)
(***************************************************************************)
DupThreads == {"r1", "r2"}

\* the request both callers send
DupRequest ==
    [bounds |-> Bounds1, start_date |-> "2024-01-01", end_date |-> "2024-12-31",
     cloud_cover |-> 20, visualization |-> "true_color", composite_method |-> "median",
     platforms |-> BothPlatforms, geojson |-> NoGeo, create_dataset |-> FALSE]

\* the cache_key both callers write
DupKey == "kA"

\* both callers use the fusion service; nobody calls the CacheService
InitDupFusion ==
    /\ initialized = TRUE
    /\ fusion_cache = [k \in FusionKeys |-> NotCached]
    /\ out_files = [k \in FusionKeys |-> NoPicture]
    /\ fpc = [t \in DupThreads |-> "idle"]
    /\ freq = [t \in DupThreads |-> NoRequest]
    /\ floc = [t \in DupThreads |-> NoFLocals]
    /\ fres = [t \in DupThreads |-> NoResult]
    /\ fhist = [t \in DupThreads |-> NoHistory]
    /\ files = [d \in DerivSet |-> [k \in CacheKeys |-> NoFile]]
    /\ metadata = [k \in CacheKeys |-> NoEntry]
    /\ metadata_file = [k \in CacheKeys |-> NoEntry]
    /\ lock = NoThread
    /\ now = 0
    /\ cpc = [t \in {} |-> "idle"]
    /\ cargs = [t \in {} |-> NoArgs]
    /\ cloc = [t \in {} |-> NoLocals]
    /\ cres = [t \in {} |-> NoResult]
    /\ cpre = [t \in {} |-> NoPre]

\* both callers use the CacheService; nobody calls the fusion service
InitDupCache ==
    /\ InitCacheService
    /\ initialized = FALSE
    /\ fusion_cache = [k \in FusionKeys |-> NotCached]
    /\ out_files = [k \in FusionKeys |-> NoPicture]
    /\ fpc = [t \in {} |-> "idle"]
    /\ freq = [t \in {} |-> NoRequest]
    /\ floc = [t \in {} |-> NoFLocals]
    /\ fres = [t \in {} |-> NoResult]
    /\ fhist = [t \in {} |-> NoHistory]

InitDup ==
    /\ InitDupFusion \/ InitDupCache
    /\ KeysUnused
    /\ ReadUnused

\* time passes while the callers run
TickDup ==
    /\ now < MaxDupTicks
    /\ now' = now + 1
    /\ UNCHANGED <<files, metadata, metadata_file, lock, cpc, cargs, cloc, cres, cpre>>
    /\ UNCHANGED <<fusionState, keyState, readState, analysisState, tileState>>

NextDup ==
    \/ \E t \in DOMAIN fpc : FCall(t, DupRequest)
    \/ \E t \in DOMAIN fpc, ok \in BOOLEAN : FInit(t, ok)
    \/ \E t \in DOMAIN fpc : FCheckCache(t)
    \/ \E t \in DOMAIN fpc : FGeometry(t)
    \/ \E t \in DOMAIN fpc, found \in BOOLEAN : FFetchSentinel(t, found)
    \/ \E t \in DOMAIN fpc, found \in BOOLEAN : FFetchLandsat(t, found)
    \/ \E t \in DOMAIN fpc, ok \in BOOLEAN : FFuse(t, ok)
    \/ \E t \in DOMAIN fpc, outcome \in ThumbOutcomes : FThumb(t, outcome)
    \/ \E t \in DOMAIN fpc, outcome \in DownloadOutcomes : FDownload(t, outcome)
    \/ \E t \in DOMAIN fpc : FStore(t)
    \/ \E t \in DOMAIN fpc : FReturn(t)
    \/ \E t \in DOMAIN cpc, img \in GoodImages : CallCacheResult(t, DupKey, img, MetaDict)
    \/ \E t \in DOMAIN cpc : CrAcquire(t)
    \/ \E t \in DOMAIN cpc : CrOpen(t)
    \/ \E t \in DOMAIN cpc, ok \in BOOLEAN : CrSaveFull(t, ok)
    \/ \E t \in DOMAIN cpc, ok \in BOOLEAN : CrSaveThumb(t, ok)
    \/ \E t \in DOMAIN cpc, ok \in BOOLEAN : CrSavePreview(t, ok)
    \/ \E t \in DOMAIN cpc : CrIndex(t)
    \/ \E t \in DOMAIN cpc : CrReturn(t)
    \/ TickDup

SpecDup == InitDup /\ [][NextDup]_vars

(***************************************************************************)
(* main.py: the endpoint POST /api/fusion/gee-harmonize in front of        *)
(* create_harmonized_fusion.                                               *)
(***************************************************************************)
\* bounds lists a caller can send: west >= east and south >= north, a window
\* without width, three numbers, an empty list
InvertedBounds == <<78, 29, 77, 28>>
FlatBounds == <<77, 28, 77, 29>>
ShortBounds == <<77, 28, 78>>
NoBounds == <<>>

Windows == {Bounds1, InvertedBounds, FlatBounds, ShortBounds, NoBounds}

\* the JSON bodies of the requests; "" is a missing date
WindowBodies ==
    [bounds : Windows, start_date : {"2024-01-01", ""}, end_date : {"2024-12-31"}]

\* the arguments the endpoint passes on, with the defaults of data.get
RequestOf(data) ==
    [bounds |-> data.bounds, start_date |-> data.start_date, end_date |-> data.end_date,
     cloud_cover |-> 20, visualization |-> "true_color", composite_method |-> "median",
     platforms |-> BothPlatforms, geojson |-> NoGeo, create_dataset |-> FALSE]

WindowKeys == {FusionCacheKey(RequestOf(data)) : data \in WindowBodies}

\* raise HTTPException(status_code=status_code, detail=detail)
HTTPException(status_code, detail) ==
    [status_code |-> status_code, detail |-> detail]

\* the endpoint raises before it calls the service
Reject(t, data, detail) ==
    /\ fpc[t] = "idle"
    /\ fpc' = [fpc EXCEPT ![t] = "responded"]
    /\ freq' = [freq EXCEPT ![t] = RequestOf(data)]
    /\ floc' = [floc EXCEPT ![t] = NoFLocals]
    /\ fres' = [fres EXCEPT ![t] = HTTPException(400, detail)]
    /\ fhist' = [fhist EXCEPT ![t] = [NoHistory EXCEPT !.steps = <<Step("validate", "rejected")>>]]
    /\ UNCHANGED <<initialized, fusion_cache, out_files>>
    /\ UNCHANGED <<now, cacheState, keyState, readState, analysisState, tileState>>

\* gee_harmonize up to the call of create_harmonized_fusion
GeeHarmonize(t, data) ==
    IF data.bounds = NoBounds \/ Len(data.bounds) # 4
    THEN Reject(t, data, "Bounds required as [west, south, east, north]")
    ELSE IF data.start_date = "" \/ data.end_date = ""
    THEN Reject(t, data, "start_date and end_date are required")
    ELSE FCall(t, RequestOf(data))

\* the status code the endpoint gives a failure of the service
StatusOfError(error_msg) ==
    IF error_msg \in {"No Sentinel-2 imagery"} THEN 404
    ELSE IF error_msg \in {"GEE initialization failed"} THEN 503
    ELSE 500

\* gee_harmonize after the call: a failure becomes an HTTPException, a success is
\* returned as it is
GeeRespond(t) ==
    /\ fpc[t] = "done"
    /\ fpc' = [fpc EXCEPT ![t] = "responded"]
    /\ fres' = [fres EXCEPT ![t] = IF fres[t].success THEN fres[t] ELSE HTTPException(StatusOfError(fres[t].error), fres[t].error)]
    /\ UNCHANGED <<initialized, fusion_cache, out_files, freq, floc, fhist>>
    /\ UNCHANGED <<now, cacheState, keyState, readState, analysisState, tileState>>

\* the caller has the response
GeeReceive(t) ==
    /\ fpc[t] = "responded"
    /\ fpc' = [fpc EXCEPT ![t] = "idle"]
    /\ freq' = [freq EXCEPT ![t] = NoRequest]
    /\ floc' = [floc EXCEPT ![t] = NoFLocals]
    /\ fres' = [fres EXCEPT ![t] = NoResult]
    /\ fhist' = [fhist EXCEPT ![t] = NoHistory]
    /\ UNCHANGED <<initialized, fusion_cache, out_files>>
    /\ UNCHANGED <<now, cacheState, keyState, readState, analysisState, tileState>>

InitWindow ==
    /\ CacheUnused
    /\ initialized \in BOOLEAN
    /\ fusion_cache = [k \in WindowKeys |-> NotCached]
    /\ out_files = [k \in WindowKeys |-> NoPicture]
    /\ fpc = [t \in FThreads |-> "idle"]
    /\ freq = [t \in FThreads |-> NoRequest]
    /\ floc = [t \in FThreads |-> NoFLocals]
    /\ fres = [t \in FThreads |-> NoResult]
    /\ fhist = [t \in FThreads |-> NoHistory]
    /\ KeysUnused
    /\ ReadUnused

NextWindow ==
    \/ \E t \in FThreads, data \in WindowBodies : GeeHarmonize(t, data)
    \/ \E t \in FThreads, ok \in BOOLEAN : FInit(t, ok)
    \/ \E t \in FThreads : FCheckCache(t)
    \/ \E t \in FThreads : FGeometry(t)
    \/ \E t \in FThreads, found \in BOOLEAN : FFetchSentinel(t, found)
    \/ \E t \in FThreads, found \in BOOLEAN : FFetchLandsat(t, found)
    \/ \E t \in FThreads, ok \in BOOLEAN : FFuse(t, ok)
    \/ \E t \in FThreads, outcome \in ThumbOutcomes : FThumb(t, outcome)
    \/ \E t \in FThreads, outcome \in DownloadOutcomes : FDownload(t, outcome)
    \/ \E t \in FThreads : FStore(t)
    \/ \E t \in FThreads : GeeRespond(t)
    \/ \E t \in FThreads : GeeReceive(t)
    \/ TickFusion

SpecWindow == InitWindow /\ [][NextWindow]_vars

(***************************************************************************)
(* The cache key of create_harmonized_fusion on pairs of requests.         *)
(***************************************************************************)
Bounds2 == <<10, 50, 11, 51>>

\* requests that vary in each of the eight parameters of a FusionRequest
KeyRequests ==
    [bounds : {Bounds1, Bounds2}, start_date : {"2024-01-01", "2024-06-01"},
     end_date : {"2024-12-31", "2024-09-30"}, cloud_cover : {20, 50},
     visualization : {"true_color", "ndvi"}, composite_method : {"median", "mean"},
     platforms : {BothPlatforms, <<"sentinel">>}, geojson : {NoGeo, Poly1, Poly2},
     create_dataset : {FALSE}]

InitKey ==
    /\ CacheUnused
    /\ FusionUnused
    /\ ReadUnused
    /\ kreq \in KeyRequests \X KeyRequests
    /\ kkeys = <<>>

\* the keys of both requests: cache_key of create_harmonized_fusion for the first
\* and the second request, then _generate_cache_key for the first and the second
ComputeKeys ==
    /\ kkeys = <<>>
    /\ kkeys' = <<FusionCacheKey(kreq[1]), FusionCacheKey(kreq[2]), generate_cache_key(kreq[1]), generate_cache_key(kreq[2])>>
    /\ UNCHANGED <<now, cacheState, fusionState, kreq, readState, analysisState, tileState>>

NextKey ==
    ComputeKeys

SpecKey == InitKey /\ [][NextKey]_vars

(***************************************************************************)
(* numpy arrays: elements are exact fractions, nan or an infinity; a grid   *)
(* has an element type and rows of elements.                               *)
(***************************************************************************)
Abs(x) ==
    IF x < 0 THEN -x ELSE x

RECURSIVE Gcd(_, _)
Gcd(a, b) ==
    IF b = 0 THEN a ELSE Gcd(b, a % b)

\* the fraction n/d in lowest terms with d > 0
Rat(n, d) ==
    LET g == Gcd(Abs(n), Abs(d))
        sign == IF d < 0 THEN -1 ELSE 1
    IN  [n |-> (sign * n) \div g, d |-> (sign * d) \div g]

Whole(n) ==
    [n |-> n, d |-> 1]

NaN == [nan |-> TRUE]
PosInf == [inf |-> 1]
NegInf == [inf |-> -1]

IsFinite(x) ==
    "n" \in DOMAIN x

\* x + y in IEEE arithmetic
Add(x, y) ==
    IF x = NaN \/ y = NaN THEN NaN
    ELSE IF ~IsFinite(x) THEN (IF ~IsFinite(y) /\ y # x THEN NaN ELSE x)
    ELSE IF ~IsFinite(y) THEN y
    ELSE Rat(x.n * y.d + y.n * x.d, x.d * y.d)

Neg(x) ==
    IF x = NaN THEN NaN
    ELSE IF IsFinite(x) THEN [n |-> 0 - x.n, d |-> x.d]
    ELSE [inf |-> 0 - x.inf]

Sub(x, y) ==
    Add(x, Neg(y))

\* x / y in IEEE arithmetic under np.errstate(divide='ignore', invalid='ignore'):
\* 0/0 is nan, a nonzero number over 0 is an infinity
Div(x, y) ==
    IF x = NaN \/ y = NaN THEN NaN
    ELSE IF ~IsFinite(x) THEN (IF ~IsFinite(y) THEN NaN ELSE [inf |-> IF y.n < 0 THEN 0 - x.inf ELSE x.inf])
    ELSE IF ~IsFinite(y) THEN Whole(0)
    ELSE IF y.n = 0 THEN (IF x.n = 0 THEN NaN ELSE IF x.n > 0 THEN PosInf ELSE NegInf)
    ELSE Rat(x.n * y.d, x.d * y.n)

\* x < y for finite x and y
Less(x, y) ==
    x.n * y.d < y.n * x.d

\* np.clip(x, lo, hi): nan stays nan
Clip(x, lo, hi) ==
    IF x = NaN THEN NaN
    ELSE IF ~IsFinite(x) THEN (IF x.inf > 0 THEN hi ELSE lo)
    ELSE IF Less(x, lo) THEN lo
    ELSE IF Less(hi, x) THEN hi
    ELSE x

\* np.nan_to_num(x, nan=0.0, posinf=0.0, neginf=0.0)
NanToNum(x) ==
    IF IsFinite(x) THEN x ELSE Whole(0)

\* conversion of a finite float to an integer type: truncation toward zero
Trunc(x) ==
    Whole((IF x.n < 0 THEN -1 ELSE 1) * (Abs(x.n) \div x.d))

\* array.shape of a two-dimensional grid
Shape(g) ==
    <<Len(g.data), Len(g.data[1])>>

\* array.astype(dtype)
astype(g, dtype) ==
    [dtype |-> dtype,
     data |-> [i \in DOMAIN g.data |-> [j \in DOMAIN g.data[i] |->
                 IF dtype = "int64" /\ g.dtype = "float64" THEN Trunc(g.data[i][j]) ELSE g.data[i][j]]]]

(***************************************************************************)
(* AnalysisService and GEEFusionService: normalized-difference indices.    *)
(***************************************************************************)
\* (x - y) / (x + y), nan_to_num, clip to [-1, 1], elementwise
NormalizedDifferenceClipped(x, y) ==
    LET a == astype(x, "float64").data
        b == astype(y, "float64").data
    IN  [dtype |-> "float64",
         data |-> [i \in DOMAIN a |-> [j \in DOMAIN a[i] |->
                     Clip(NanToNum(Div(Sub(a[i][j], b[i][j]), Add(a[i][j], b[i][j]))), Whole(-1), Whole(1))]]]

\* AnalysisService.calculate_ndvi(nir, red)
calculate_ndvi(nir, red) ==
    NormalizedDifferenceClipped(nir, red)

\* AnalysisService.calculate_ndwi(green, nir)
calculate_ndwi(green, nir) ==
    NormalizedDifferenceClipped(green, nir)

\* np.where(denominator != 0, (x - y) / denominator, 0), elementwise; nan != 0 holds
NormalizedDifferenceWhere(x, y) ==
    LET a == astype(x, "float64").data
        b == astype(y, "float64").data
    IN  [dtype |-> "float64",
         data |-> [i \in DOMAIN a |-> [j \in DOMAIN a[i] |->
                     IF Add(a[i][j], b[i][j]) # Whole(0)
                     THEN Div(Sub(a[i][j], b[i][j]), Add(a[i][j], b[i][j]))
                     ELSE Whole(0)]]]

\* GEEFusionService.compute_ndvi(fused_tensor, nir_idx, red_idx); band k of the
\* tensor is fused_tensor[k + 1]
compute_ndvi(fused_tensor, nir_idx, red_idx) ==
    NormalizedDifferenceWhere(fused_tensor[nir_idx + 1], fused_tensor[red_idx + 1])

\* GEEFusionService.compute_ndwi(fused_tensor, green_idx, nir_idx)
compute_ndwi(fused_tensor, green_idx, nir_idx) ==
    NormalizedDifferenceWhere(fused_tensor[green_idx + 1], fused_tensor[nir_idx + 1])

\* AnalysisService.fuse_gap_fill: np.where(~np.isnan(sentinel_ndvi), sentinel_ndvi,
\* landsat_ndvi)
fuse_gap_fill(sentinel_nir, sentinel_red, landsat_nir, landsat_red) ==
    LET sentinel_ndvi == calculate_ndvi(sentinel_nir, sentinel_red).data
        landsat_ndvi == calculate_ndvi(landsat_nir, landsat_red).data
    IN  [dtype |-> "float64",
         data |-> [i \in DOMAIN sentinel_ndvi |-> [j \in DOMAIN sentinel_ndvi[i] |->
                     IF sentinel_ndvi[i][j] # NaN THEN sentinel_ndvi[i][j] ELSE landsat_ndvi[i][j]]]]

(***************************************************************************)
(* AnalysisService: the reducers fuse_mean, fuse_median, fuse_best_pixel.   *)
(***************************************************************************)
\* raise ValueError(message)
ValueError(message) ==
    [raised |-> "ValueError", message |-> message]

\* every array of the list has the shape of the first
SameShapes(images) ==
    \A k \in DOMAIN images : Shape(images[k]) = Shape(images[1])

\* stack[:, i, j] as a sequence
Column(images, i, j) ==
    [k \in DOMAIN images |-> images[k].data[i][j]]

RECURSIVE SumOf(_, _)
\* the sum of the first n values
SumOf(values, n) ==
    IF n = 0 THEN Whole(0) ELSE Add(SumOf(values, n - 1), values[n])

\* np.mean of the values
MeanOf(values) ==
    Div(SumOf(values, Len(values)), Whole(Len(values)))

\* the k-th smallest of the values
KthSmallest(values, k) ==
    CHOOSE v \in {values[i] : i \in DOMAIN values} :
        /\ Cardinality({i \in DOMAIN values : Less(values[i], v)}) < k
        /\ Cardinality({i \in DOMAIN values : ~Less(v, values[i])}) >= k

\* np.median of the values: the middle one, or the mean of the two middle ones
MedianOf(values) ==
    LET n == Len(values)
    IN  IF n % 2 = 1
        THEN KthSmallest(values, (n + 1) \div 2)
        ELSE Div(Add(KthSmallest(values, n \div 2), KthSmallest(values, n \div 2 + 1)), Whole(2))

\* the value stored into an array of element type dtype
Cast(v, dtype) ==
    IF dtype = "int64" THEN Trunc(v) ELSE v

\* pixel (i, j) of array g broadcast to a larger shape: a dimension of size 1 repeats
BroadcastAt(g, i, j) ==
    g.data[IF Len(g.data) = 1 THEN 1 ELSE i][IF Len(g.data[1]) = 1 THEN 1 ELSE j]

\* a mean that broadcasts arrays of different shapes to the shape of the first
fuse_mean_broadcast(images) ==
    IF Len(images) = 0
    THEN ValueError("No images provided")
    ELSE [dtype |-> images[1].dtype,
          data |-> [i \in DOMAIN images[1].data |-> [j \in DOMAIN images[1].data[i] |->
                      Cast(MeanOf([k \in DOMAIN images |-> BroadcastAt(images[k], i, j)]), images[1].dtype)]]]

\* fuse_mean: np.mean(np.stack(images, axis=0), axis=0).astype(images[0].dtype);
\* np.stack raises ValueError when the arrays differ in shape
fuse_mean(images) ==
    IF Len(images) = 0
    THEN ValueError("No images provided")
    ELSE IF ~SameShapes(images)
    THEN ValueError("all input arrays must have the same shape")
    ELSE [dtype |-> images[1].dtype,
          data |-> [i \in DOMAIN images[1].data |-> [j \in DOMAIN images[1].data[i] |->
                      Cast(MeanOf(Column(images, i, j)), images[1].dtype)]]]

\* fuse_median: np.median(np.stack(images, axis=0), axis=0).astype(images[0].dtype)
fuse_median(images) ==
    IF Len(images) = 0
    THEN ValueError("No images provided")
    ELSE IF ~SameShapes(images)
    THEN ValueError("all input arrays must have the same shape")
    ELSE [dtype |-> images[1].dtype,
          data |-> [i \in DOMAIN images[1].data |-> [j \in DOMAIN images[1].data[i] |->
                      Cast(MedianOf(Column(images, i, j)), images[1].dtype)]]]

\* quality_masks = None
NoMasks == <<>>

\* the first k in enumerate(quality_masks) with mask[i, j] > 0, or 0 when the loop
\* ends without break
FirstGood(quality_masks, i, j) ==
    LET good == {k \in DOMAIN quality_masks : Less(Whole(0), quality_masks[k].data[i][j])}
    IN  IF good = {} THEN 0 ELSE CHOOSE k \in good : \A m \in good : k <= m

\* fuse_best_pixel(images, quality_masks)
fuse_best_pixel(images, quality_masks) ==
    IF Len(images) = 0
    THEN ValueError("No images provided for fusion")
    ELSE IF Len(images) = 1
    THEN images[1]
    ELSE IF ~SameShapes(images)
    THEN ValueError("All images must have the same shape")
    ELSE IF quality_masks # NoMasks
    THEN [dtype |-> images[1].dtype,
          data |-> [i \in DOMAIN images[1].data |-> [j \in DOMAIN images[1].data[i] |->
                      IF FirstGood(quality_masks, i, j) # 0
                      THEN Cast(images[FirstGood(quality_masks, i, j)].data[i][j], images[1].dtype)
                      ELSE Cast(MedianOf(Column(images, i, j)), images[1].dtype)]]]
    ELSE [dtype |-> images[1].dtype,
          data |-> [i \in DOMAIN images[1].data |-> [j \in DOMAIN images[1].data[i] |->
                      Cast(MedianOf(Column(images, i, j)), images[1].dtype)]]]

(***************************************************************************)
(* GEEFusionService.resample_to_target and FusionService.resample_to_target*)
(* with scipy.ndimage.zoom.  A two-dimensional source is a grid            *)
(* [dtype, data]; a three-dimensional source is [dtype, bands], the        *)
(* sequence of its two-dimensional planes.                                 *)
(***************************************************************************)
\* x * y for finite x and y
Mul(x, y) ==
    Rat(x.n * y.n, x.d * y.d)

\* the largest integer not above the non-negative x
Floor(x) ==
    x.n \div x.d

\* Python's round(x) for non-negative x: to the nearest integer, a tie to the even one
Round(x) ==
    LET f == Floor(x)
        twice == Sub(Mul(Whole(2), x), Whole(2 * f))
    IN  IF Less(twice, Whole(1)) THEN f
        ELSE IF Less(Whole(1), twice) THEN f + 1
        ELSE IF f % 2 = 0 THEN f ELSE f + 1

\* the value an interpolated v takes in an output of element type dtype:
\* integer outputs round half away from zero
ZoomCast(v, dtype) ==
    IF dtype \in {"int64", "uint8"}
    THEN Whole((IF v.n < 0 THEN -1 ELSE 1) * ((2 * Abs(v.n) + v.d) \div (2 * v.d)))
    ELSE v

\* source.ndim
ndim(source) ==
    IF "bands" \in DOMAIN source THEN 3 ELSE 2

\* the planes source[c] of a (C, H, W) array, or source[:, :, c] of a (H, W, C) array
Planes(source) ==
    IF ndim(source) = 3 THEN source.bands ELSE <<source.data>>

\* source.shape when the planes are the first axis: (C, H, W) or (H, W)
ShapeCHW(source) ==
    IF ndim(source) = 3
    THEN <<Len(source.bands), Len(source.bands[1]), Len(source.bands[1][1])>>
    ELSE <<Len(source.data), Len(source.data[1])>>

\* source.shape when the planes are the last axis: (H, W, C) or (H, W)
ShapeHWC(source) ==
    IF ndim(source) = 3
    THEN <<Len(source.bands[1]), Len(source.bands[1][1]), Len(source.bands)>>
    ELSE <<Len(source.data), Len(source.data[1])>>

\* the input coordinate (from 0) of output index o (from 1) along an axis that
\* goes from n_in to n_out samples: ndimage.zoom lines up the first and last samples
Coord(o, n_in, n_out) ==
    IF n_out > 1 THEN Rat((o - 1) * (n_in - 1), n_out - 1) ELSE Whole(0)

\* mode='nearest': an index past the edge reads the edge sample
Edge(k, n_in) ==
    IF k < 0 THEN 1 ELSE IF k > n_in - 1 THEN n_in ELSE k + 1

\* ndimage.zoom(data, (zoom_h, zoom_w), order=order, mode='nearest') for a plane of
\* element type dtype: order 0 takes the nearest sample, order 1 interpolates linearly
zoom(data, dtype, zoom_h, zoom_w, order) ==
    LET in_h == Len(data)
        in_w == Len(data[1])
        out_h == Round(Mul(Whole(in_h), zoom_h))
        out_w == Round(Mul(Whole(in_w), zoom_w))
    IN  [i \in 1..out_h |-> [j \in 1..out_w |->
            LET ci == Coord(i, in_h, out_h)
                cj == Coord(j, in_w, out_w)
            IN  IF order = 0
                THEN data[Edge(Floor(Add(ci, Rat(1, 2))), in_h)][Edge(Floor(Add(cj, Rat(1, 2))), in_w)]
                ELSE LET wi == Sub(ci, Whole(Floor(ci)))
                         wj == Sub(cj, Whole(Floor(cj)))
                         r0 == Edge(Floor(ci), in_h)
                         r1 == Edge(Floor(ci) + 1, in_h)
                         c0 == Edge(Floor(cj), in_w)
                         c1 == Edge(Floor(cj) + 1, in_w)
                         top == Add(Mul(Sub(Whole(1), wj), data[r0][c0]), Mul(wj, data[r0][c1]))
                         bottom == Add(Mul(Sub(Whole(1), wj), data[r1][c0]), Mul(wj, data[r1][c1]))
                     IN  ZoomCast(Add(Mul(Sub(Whole(1), wi), top), Mul(wi, bottom)), dtype)]]

\* a resample_to_target that zooms every source and takes the zoom factors from
\* the wrong axes
resample_to_target_swapped(source, target_shape, method) ==
    LET order == IF method = "bilinear" THEN 1 ELSE 0
        hw == SubSeq(ShapeCHW(source), Len(ShapeCHW(source)) - 1, Len(ShapeCHW(source)))
        zoom_h == Rat(target_shape[2], hw[1])
        zoom_w == Rat(target_shape[1], hw[2])
    IN  IF ndim(source) = 3
        THEN [dtype |-> source.dtype,
              bands |-> [c \in DOMAIN source.bands |-> zoom(source.bands[c], source.dtype, zoom_h, zoom_w, order)]]
        ELSE [dtype |-> source.dtype, data |-> zoom(source.data, source.dtype, zoom_h, zoom_w, order)]

\* GEEFusionService.resample_to_target(source, target_shape, method): source is
\* (C, H, W) or (H, W)
resample_to_target(source, target_shape, method) ==
    LET shape == ShapeCHW(source)
        order == IF method = "bilinear" THEN 1 ELSE 0
    IN  IF SubSeq(shape, Len(shape) - 1, Len(shape)) = target_shape
        THEN source
        ELSE IF ndim(source) = 3
        THEN LET zoom_h == Rat(target_shape[1], shape[2])
                 zoom_w == Rat(target_shape[2], shape[3])
             IN  [dtype |-> source.dtype,
                  bands |-> [c \in DOMAIN source.bands |-> zoom(source.bands[c], source.dtype, zoom_h, zoom_w, order)]]
        ELSE LET zoom_h == Rat(target_shape[1], shape[1])
                 zoom_w == Rat(target_shape[2], shape[2])
             IN  [dtype |-> source.dtype, data |-> zoom(source.data, source.dtype, zoom_h, zoom_w, order)]

\* FusionService.resample_to_target(source, target_shape): source is (H, W, C) or
\* (H, W), the interpolation is always bilinear
FusionService_resample_to_target(source, target_shape) ==
    LET shape == ShapeHWC(source)
        zoom_h == Rat(target_shape[1], shape[1])
        zoom_w == Rat(target_shape[2], shape[2])
    IN  IF SubSeq(shape, 1, 2) = target_shape
        THEN source
        ELSE IF ndim(source) = 3
        THEN [dtype |-> source.dtype,
              bands |-> [c \in DOMAIN source.bands |-> zoom(source.bands[c], source.dtype, zoom_h, zoom_w, 1)]]
        ELSE [dtype |-> source.dtype, data |-> zoom(source.data, source.dtype, zoom_h, zoom_w, 1)]

(***************************************************************************)
(* The calls of the array functions: arguments and one action per function.*)
(***************************************************************************)
\* band values of the index functions: negative, zero, positive, missing
BandValues == {Whole(-1), Whole(0), Whole(1), Whole(2), NaN}

\* 1 x 2 float bands
BandGrids == {[dtype |-> "float64", data |-> <<<<v1, v2>>>>] : v1 \in BandValues, v2 \in BandValues}

\* band values and 1 x 2 bands of the gap-fill calls
GapValues == {Whole(0), Whole(1), Whole(3), NaN}
GapGrids == {[dtype |-> "float64", data |-> <<<<v1, v2>>>>] : v1 \in GapValues, v2 \in GapValues}

ZeroBand == [dtype |-> "float64", data |-> <<<<Whole(0), Whole(0)>>>>]

\* a (bands, H, W) tensor with B8 at index 6 and the visible bands at indices 1, 2
Tensor(nir, visible) ==
    <<ZeroBand, visible, visible, ZeroBand, ZeroBand, ZeroBand, nir>>

\* the default band indices of compute_ndvi and compute_ndwi
nir_idx == 6
red_idx == 2
green_idx == 1

IndexCalls ==
    {[op |-> op, x |-> x, y |-> y] : op \in {"calculate_ndvi", "calculate_ndwi"}, x \in BandGrids, y \in BandGrids}

TensorCalls ==
    {[op |-> op, fused_tensor |-> Tensor(x, y)] : op \in {"compute_ndvi", "compute_ndwi"}, x \in BandGrids, y \in BandGrids}

GapFillCalls ==
    [op : {"fuse_gap_fill"}, sentinel_nir : GapGrids, sentinel_red : GapGrids, landsat_nir : GapGrids, landsat_red : GapGrids]

CalculateNdvi ==
    /\ ain.op = "calculate_ndvi"
    /\ aout = NoResult
    /\ aout' = calculate_ndvi(ain.x, ain.y)
    /\ UNCHANGED <<now, cacheState, fusionState, keyState, readState, tileState, ain>>

CalculateNdwi ==
    /\ ain.op = "calculate_ndwi"
    /\ aout = NoResult
    /\ aout' = calculate_ndwi(ain.x, ain.y)
    /\ UNCHANGED <<now, cacheState, fusionState, keyState, readState, tileState, ain>>

ComputeNdvi ==
    /\ ain.op = "compute_ndvi"
    /\ aout = NoResult
    /\ aout' = compute_ndvi(ain.fused_tensor, nir_idx, red_idx)
    /\ UNCHANGED <<now, cacheState, fusionState, keyState, readState, tileState, ain>>

ComputeNdwi ==
    /\ ain.op = "compute_ndwi"
    /\ aout = NoResult
    /\ aout' = compute_ndwi(ain.fused_tensor, green_idx, nir_idx)
    /\ UNCHANGED <<now, cacheState, fusionState, keyState, readState, tileState, ain>>

FuseGapFill ==
    /\ ain.op = "fuse_gap_fill"
    /\ aout = NoResult
    /\ aout' = fuse_gap_fill(ain.sentinel_nir, ain.sentinel_red, ain.landsat_nir, ain.landsat_red)
    /\ UNCHANGED <<now, cacheState, fusionState, keyState, readState, tileState, ain>>

\* pixel values of the reducers' arrays, by element type
IntPixels == {Whole(10), Whole(15)}
FloatPixels == {Rat(25, 2), Whole(20)}

\* the shapes of the reducers' arrays
StackShapes == {<<1, 1>>, <<1, 2>>}

\* all arrays of a shape with pixels from a set
GridsOf(dtype, shape, pixels) ==
    {[dtype |-> dtype, data |-> rows] : rows \in [1..shape[1] -> [1..shape[2] -> pixels]]}

StackGrids ==
    UNION {GridsOf("int64", sh, IntPixels) \cup GridsOf("float64", sh, FloatPixels) : sh \in StackShapes}

\* the lists of at most n arrays
Stacks(n) ==
    UNION {[1..k -> StackGrids] : k \in 0..n}

\* quality mask values: bad, good, and a nonzero value that is not positive
MaskValues == {Whole(0), Whole(1), Whole(-1)}

\* no masks, or one mask per image, of the shape of the first image
MasksFor(images) ==
    IF Len(images) = 0
    THEN {NoMasks}
    ELSE {NoMasks} \cup [1..Len(images) -> GridsOf("int64", Shape(images[1]), MaskValues)]

ReducerCalls ==
    {[op |-> op, images |-> images] : op \in {"fuse_mean", "fuse_median"}, images \in Stacks(MaxStack)}

\* the arrays of the fuse_best_pixel calls: every 1 x 1 array and two 1 x 2 arrays
MaskedStackGrids ==
    GridsOf("int64", <<1, 1>>, IntPixels) \cup GridsOf("float64", <<1, 1>>, FloatPixels)
        \cup {[dtype |-> "int64", data |-> <<<<Whole(10), Whole(15)>>>>], [dtype |-> "float64", data |-> <<<<Rat(25, 2), Whole(20)>>>>]}

BestPixelCalls ==
    UNION {{[op |-> "fuse_best_pixel", images |-> images, quality_masks |-> masks] : masks \in MasksFor(images)} :
             images \in UNION {[1..k -> MaskedStackGrids] : k \in 0..MaxMaskedStack}}

FuseMean ==
    /\ ain.op = "fuse_mean"
    /\ aout = NoResult
    /\ aout' = fuse_mean(ain.images)
    /\ UNCHANGED <<now, cacheState, fusionState, keyState, readState, tileState, ain>>

FuseMedian ==
    /\ ain.op = "fuse_median"
    /\ aout = NoResult
    /\ aout' = fuse_median(ain.images)
    /\ UNCHANGED <<now, cacheState, fusionState, keyState, readState, tileState, ain>>

FuseBestPixel ==
    /\ ain.op = "fuse_best_pixel"
    /\ aout = NoResult
    /\ aout' = fuse_best_pixel(ain.images, ain.quality_masks)
    /\ UNCHANGED <<now, cacheState, fusionState, keyState, readState, tileState, ain>>

\* the sources of the resampling calls: the two-dimensional arrays of the reducer
\* calls and two-plane arrays of 1 x 2 planes
ResampleSources ==
    StackGrids
        \cup {[dtype |-> "int64", bands |-> <<<<<<a, b>>>>, <<<<b, a>>>>>>] : a \in IntPixels, b \in IntPixels}
        \cup {[dtype |-> "float64", bands |-> <<<<<<a, b>>>>, <<<<b, a>>>>>>] : a \in FloatPixels, b \in FloatPixels}

\* target_shape: the shapes of the sources, a wider and a taller one
TargetShapes == {<<1, 1>>, <<1, 2>>, <<1, 3>>, <<2, 2>>}

Methods == {"bilinear", "nearest"}

ResampleCalls ==
    [op : {"GEEFusionService.resample_to_target"}, source : ResampleSources, target_shape : TargetShapes, method : Methods]
        \cup [op : {"FusionService.resample_to_target"}, source : ResampleSources, target_shape : TargetShapes]

ResampleToTarget ==
    /\ ain.op = "GEEFusionService.resample_to_target"
    /\ aout = NoResult
    /\ aout' = resample_to_target(ain.source, ain.target_shape, ain.method)
    /\ UNCHANGED <<now, cacheState, fusionState, keyState, readState, tileState, ain>>

FusionServiceResampleToTarget ==
    /\ ain.op = "FusionService.resample_to_target"
    /\ aout = NoResult
    /\ aout' = FusionService_resample_to_target(ain.source, ain.target_shape)
    /\ UNCHANGED <<now, cacheState, fusionState, keyState, readState, tileState, ain>>

\* the services are constructed, one array function is about to be called
InitAnalysis ==
    /\ CacheUnused
    /\ FusionUnused
    /\ KeysUnused
    /\ rpc = "idle"
    /\ rargs = NoArgs
    /\ rres = NoResult
    /\ rw = NoWriter
    /\ TilesUnused
    /\ ain \in IndexCalls \cup TensorCalls \cup GapFillCalls \cup ReducerCalls \cup BestPixelCalls \cup ResampleCalls
    /\ aout = NoResult

NextAnalysis ==
    \/ CalculateNdvi
    \/ CalculateNdwi
    \/ ComputeNdvi
    \/ ComputeNdwi
    \/ FuseGapFill
    \/ FuseMean
    \/ FuseMedian
    \/ FuseBestPixel
    \/ ResampleToTarget
    \/ FusionServiceResampleToTarget

SpecAnalysis == InitAnalysis /\ [][NextAnalysis]_vars

\* GEEFusionService.fuse_sensors(sentinel_array, landsat_array, window_size): both
\* (C, H, W) arrays are resampled to (window_size, window_size) unless they have
\* that height and width, and concatenated along the band axis
fuse_sensors(sentinel_array, landsat_array, window_size) ==
    LET target_shape == <<window_size, window_size>>
        aligned(array) ==
            IF SubSeq(ShapeCHW(array), 2, Len(ShapeCHW(array))) # target_shape
            THEN resample_to_target(array, target_shape, "bilinear")
            ELSE array
    IN  [dtype |-> IF sentinel_array.dtype = landsat_array.dtype THEN sentinel_array.dtype ELSE "float64",
         bands |-> aligned(sentinel_array).bands \o aligned(landsat_array).bands]

\* the (C, H, W) arrays and the window sizes given to fuse_sensors
FuseSources == {source \in ResampleSources : ndim(source) = 3}

WindowSizes == {1, 2}

(***************************************************************************)
(* FusionService: download_tile_image, harmonize_tiles and                 *)
(* create_harmonized_tiles.  Tile arrays are uint8 arrays of shape         *)
(* (H, W, C), held as their channel planes, or (H, W).                     *)
(***************************************************************************)
\* the scene lists of a request are at most this long
MaxSentinel == 2
MaxLandsat == 1
\* create_harmonized_tiles is called for a request that leaves at most this many
\* results in the stores
MaxStored == 1

\* return None
None == [none |-> TRUE]

\* an h x w plane and a tile of that many channels
Plane(h, w, v) ==
    [i \in 1..h |-> [j \in 1..w |-> Whole(v + 5 * (j - 1))]]

Tile(h, w, channels, v) ==
    [dtype |-> "uint8", bands |-> [c \in 1..channels |-> Plane(h, w, v + 20 * c)]]

\* what the tile server answers for a url: an RGB tile, an RGBA tile, a smaller RGB
\* tile, a grayscale tile, or a status that is not 200
Response(url) ==
    CASE url = "u_rgb" -> [status_code |-> 200, content |-> Tile(1, 2, 3, 10)]
      [] url = "u_rgba" -> [status_code |-> 200, content |-> Tile(1, 2, 4, 41)]
      [] url = "u_small" -> [status_code |-> 200, content |-> Tile(1, 1, 3, 103)]
      [] url = "u_gray" -> [status_code |-> 200, content |-> [dtype |-> "uint8", data |-> Plane(1, 2, 70)]]
      [] OTHER -> [status_code |-> 404]

\* download_tile_image(tile_url, z, x, y): the cached array, else the array of a
\* 200 response, else None
download_tile_image(tile_url) ==
    IF tile_url \in DOMAIN tile_cache THEN tile_cache[tile_url]
    ELSE IF Response(tile_url).status_code = 200 THEN Response(tile_url).content
    ELSE None

\* store[id] = v
Put(store, id, v) ==
    [k \in DOMAIN store \cup {id} |-> IF k = id THEN v ELSE store[k]]

\* scenes[:3]
FirstThree(scenes) ==
    SubSeq(scenes, 1, IF Len(scenes) < 3 THEN Len(scenes) ELSE 3)

\* the scenes with a tile_url
WithUrl(scenes) ==
    SelectSeq(scenes, LAMBDA scene : scene.tile_url # "")

\* download_tasks: the first three Sentinel scenes, then the first three Landsat
\* scenes, each with a tile_url, for the first tile of the bounds
DownloadTasks(sentinel_scenes, landsat_scenes) ==
    [k \in DOMAIN WithUrl(FirstThree(sentinel_scenes)) |->
        [source_type |-> "sentinel", tile_url |-> WithUrl(FirstThree(sentinel_scenes))[k].tile_url]]
    \o [k \in DOMAIN WithUrl(FirstThree(landsat_scenes)) |->
        [source_type |-> "landsat", tile_url |-> WithUrl(FirstThree(landsat_scenes))[k].tile_url]]

\* arr.shape[:2] and arr.shape[2:]
HeightWidth(arr) ==
    SubSeq(ShapeHWC(arr), 1, 2)

Channels(arr) ==
    SubSeq(ShapeHWC(arr), 3, Len(ShapeHWC(arr)))

\* an alignment that takes the first Landsat array as the reference
AllArrays_landsat_master(s_arrays, l_arrays) ==
    IF l_arrays = <<>> THEN s_arrays
    ELSE l_arrays \o [k \in DOMAIN s_arrays |->
                        FusionService_resample_to_target(s_arrays[k], HeightWidth(l_arrays[1]))]

\* all_arrays: the Sentinel arrays as they are, then the Landsat arrays resampled to
\* reference_shape, which is the first Sentinel array's or else the first Landsat
\* array's height and width (the array that sets it is not resampled)
AllArrays(s_arrays, l_arrays) ==
    s_arrays \o [k \in DOMAIN l_arrays |->
                    IF s_arrays = <<>> /\ k = 1 THEN l_arrays[k]
                    ELSE FusionService_resample_to_target(
                            l_arrays[k], HeightWidth(IF s_arrays # <<>> THEN s_arrays[1] ELSE l_arrays[1]))]

\* "Adjust channels" of a resized array: a 2-D array is stacked three times, an
\* array with more channels than the target is cut, and None stands for the array
\* that the bare except drops (resized.shape[2] of a 2-D target raises)
AdjustChannels(resized, target_shape) ==
    IF Channels(resized) = SubSeq(target_shape, 3, Len(target_shape)) THEN resized
    ELSE IF ndim(resized) = 2 THEN [dtype |-> resized.dtype, bands |-> <<resized.data, resized.data, resized.data>>]
    ELSE IF Len(target_shape) < 3 THEN None
    ELSE IF Len(resized.bands) > target_shape[3] THEN [dtype |-> resized.dtype, bands |-> SubSeq(resized.bands, 1, target_shape[3])]
    ELSE resized

\* the array that "Try to resize" appends to matching for an arr of another shape
\* than target_shape
Resized(arr, target_shape) ==
    AdjustChannels(FusionService_resample_to_target(arr, SubSeq(target_shape, 1, 2)), target_shape)

\* matching: the arrays of the target shape and the resized others
Matching(all_arrays) ==
    LET target_shape == ShapeHWC(all_arrays[1])
        tried == [k \in DOMAIN all_arrays |->
                    IF ShapeHWC(all_arrays[k]) = target_shape THEN all_arrays[k] ELSE Resized(all_arrays[k], target_shape)]
    IN  SelectSeq(tried, LAMBDA arr : arr # None)

\* np.median(np.stack(matching, axis=0), axis=0).astype(np.uint8) of arrays of one shape
MedianMosaic(matching) ==
    LET median(plane_of(_)) ==
            [i \in DOMAIN plane_of(1) |-> [j \in DOMAIN plane_of(1)[i] |->
                Trunc(MedianOf([k \in DOMAIN matching |-> plane_of(k)[i][j]]))]]
    IN  IF ndim(matching[1]) = 2
        THEN [dtype |-> "uint8", data |-> median(LAMBDA k : matching[k].data)]
        ELSE [dtype |-> "uint8",
              bands |-> [c \in DOMAIN matching[1].bands |-> median(LAMBDA k : matching[k].bands[c])]]

\* the result dict of harmonize_tiles for a mosaic
Result(request, mosaic) ==
    [success |-> TRUE,
     data |-> mosaic,
     bounds |-> request.aoi_bounds,
     shape |-> ShapeHWC(mosaic),
     num_sentinel |-> Len(WithUrl(request.sentinel_scenes)),
     num_landsat |-> Len(WithUrl(request.landsat_scenes))]

\* np.stack(matching) raises on arrays of different shapes and the outer except
\* returns None; else the result with the median mosaic
Stacked(request, matching) ==
    IF matching = <<>> THEN None
    ELSE IF \E k \in DOMAIN matching : ShapeHWC(matching[k]) # ShapeHWC(matching[1]) THEN None
    ELSE Result(request, MedianMosaic(matching))

\* "Step 3: Create median composite" of the arrays that were downloaded
Composite(request, all_arrays) ==
    IF all_arrays = <<>> THEN None
    ELSE Stacked(request, Matching(all_arrays))

\* harmonize_tiles after the downloads
Harmonized(request, s_arrays, l_arrays) ==
    Composite(request, AllArrays(s_arrays, l_arrays))

\* the letters of the scene ids in sorting order
Alphabet == <<"a", "b", "c", "d", "e", "f", "g">>

RECURSIVE SortedUpTo(_, _)
\* the ids among the first k letters, sorted
SortedUpTo(ids, k) ==
    IF k = 0 THEN <<>>
    ELSE SortedUpTo(ids, k - 1) \o [n \in 1..Cardinality({i \in DOMAIN ids : ids[i] = Alphabet[k]}) |-> Alphabet[k]]

\* fusion_id = "fusion_" + md5(''.join(sorted(scene_ids)))[:12] with the ids of the
\* Sentinel scenes followed by those of the Landsat scenes; the ids are single
\* letters, the joined string is the sequence of its letters, md5 is taken to be
\* injective
fusion_id(sentinel_scenes, landsat_scenes) ==
    LET scene_ids == [k \in DOMAIN (sentinel_scenes \o landsat_scenes) |-> (sentinel_scenes \o landsat_scenes)[k].id]
    IN  <<"fusion", SortedUpTo(scene_ids, Len(Alphabet))>>

\* the scenes of the requests
SentinelScenes ==
    {[id |-> "a", tile_url |-> "u_rgb"], [id |-> "b", tile_url |-> "u_rgba"],
     [id |-> "c", tile_url |-> "u_small"], [id |-> "d", tile_url |-> "u_bad"]}

LandsatScenes ==
    {[id |-> "e", tile_url |-> "u_rgb"], [id |-> "f", tile_url |-> "u_gray"], [id |-> "g", tile_url |-> ""]}

SceneLists(scenes, n) ==
    UNION {[1..k -> scenes] : k \in 0..n}

\* create_harmonized_tiles(sentinel_scenes, landsat_scenes, aoi_bounds) up to the
\* submission of the download tasks in harmonize_tiles
TCall(sentinel_scenes, landsat_scenes) ==
    /\ tpc = "idle"
    /\ Cardinality(DOMAIN fused_data_store \cup {fusion_id(sentinel_scenes, landsat_scenes)}) <= MaxStored
    /\ tpc' = "collect"
    /\ treq' = [sentinel_scenes |-> sentinel_scenes, landsat_scenes |-> landsat_scenes, aoi_bounds |-> Bounds1]
    /\ futures' = [k \in DOMAIN DownloadTasks(sentinel_scenes, landsat_scenes) |->
                     [source_type |-> DownloadTasks(sentinel_scenes, landsat_scenes)[k].source_type,
                      tile_url |-> DownloadTasks(sentinel_scenes, landsat_scenes)[k].tile_url,
                      state |-> "submitted", result |-> None, runs |-> 0]]
    /\ sentinel_arrays' = <<>>
    /\ landsat_arrays' = <<>>
    /\ tres' = NoResult
    /\ UNCHANGED <<fused_data_store, fused_metadata_store, tile_cache>>
    /\ UNCHANGED <<now, cacheState, fusionState, keyState, readState, analysisState>>

\* a worker of the executor runs download_tile_image for task i
TDownload(i) ==
    /\ futures[i].state = "submitted"
    /\ futures' = [futures EXCEPT ![i].state = "finished",
                                  ![i].result = download_tile_image(futures[i].tile_url),
                                  ![i].runs = @ + 1]
    /\ tile_cache' = IF download_tile_image(futures[i].tile_url) # None
                     THEN Put(tile_cache, futures[i].tile_url, download_tile_image(futures[i].tile_url))
                     ELSE tile_cache
    /\ UNCHANGED <<tpc, treq, sentinel_arrays, landsat_arrays, tres, fused_data_store, fused_metadata_store>>
    /\ UNCHANGED <<now, cacheState, fusionState, keyState, readState, analysisState>>

\* a collecting loop that ends as soon as one future was taken
THarmonize_first ==
    /\ tpc = "collect"
    /\ futures = <<>> \/ \E i \in DOMAIN futures : futures[i].state = "collected"
    /\ tpc' = "harmonized"
    /\ tres' = Harmonized(treq, sentinel_arrays, landsat_arrays)
    /\ UNCHANGED <<treq, futures, sentinel_arrays, landsat_arrays, fused_data_store, fused_metadata_store, tile_cache>>
    /\ UNCHANGED <<now, cacheState, fusionState, keyState, readState, analysisState>>

\* one pass of "for future in as_completed(futures)": a finished future is taken
\* and its array, if any, appended to the list of its source type
TCollect(i) ==
    /\ tpc = "collect"
    /\ futures[i].state = "finished"
    /\ futures' = [futures EXCEPT ![i].state = "collected"]
    /\ sentinel_arrays' = IF futures[i].result # None /\ futures[i].source_type = "sentinel"
                          THEN Append(sentinel_arrays, futures[i].result) ELSE sentinel_arrays
    /\ landsat_arrays' = IF futures[i].result # None /\ futures[i].source_type # "sentinel"
                         THEN Append(landsat_arrays, futures[i].result) ELSE landsat_arrays
    /\ UNCHANGED <<tpc, treq, tres, fused_data_store, fused_metadata_store, tile_cache>>
    /\ UNCHANGED <<now, cacheState, fusionState, keyState, readState, analysisState>>

\* the loop over as_completed has ended: reference shape, resampling and the
\* median composite, up to the return of harmonize_tiles
THarmonize ==
    /\ tpc = "collect"
    /\ \A i \in DOMAIN futures : futures[i].state = "collected"
    /\ tpc' = "harmonized"
    /\ tres' = Harmonized(treq, sentinel_arrays, landsat_arrays)
    /\ UNCHANGED <<treq, futures, sentinel_arrays, landsat_arrays, fused_data_store, fused_metadata_store, tile_cache>>
    /\ UNCHANGED <<now, cacheState, fusionState, keyState, readState, analysisState>>

\* a store step that files the metadata under the id of the scenes in request order
TStore_unsorted ==
    /\ tpc = "harmonized"
    /\ tpc' = "done"
    /\ LET ids == [k \in DOMAIN (treq.sentinel_scenes \o treq.landsat_scenes) |-> (treq.sentinel_scenes \o treq.landsat_scenes)[k].id]
       IN  IF tres = None
           THEN /\ tres' = [success |-> FALSE, error |-> "Failed to harmonize scenes - check backend logs"]
                /\ UNCHANGED <<fused_data_store, fused_metadata_store>>
           ELSE /\ fused_data_store' = Put(fused_data_store, <<"fusion", ids>>, tres.data)
                /\ fused_metadata_store' = Put(fused_metadata_store, <<"fusion", ids>>, [bounds |-> tres.bounds, shape |-> tres.shape])
                /\ tres' = [success |-> TRUE, fusion_id |-> <<"fusion", ids>>, bounds |-> treq.aoi_bounds, shape |-> tres.shape,
                            num_sentinel |-> tres.num_sentinel, num_landsat |-> tres.num_landsat]
    /\ UNCHANGED <<treq, futures, sentinel_arrays, landsat_arrays, tile_cache>>
    /\ UNCHANGED <<now, cacheState, fusionState, keyState, readState, analysisState>>

\* create_harmonized_tiles after harmonize_tiles: the failure dict, or the mosaic
\* and its metadata stored under fusion_id and the success dict
TStore ==
    /\ tpc = "harmonized"
    /\ tpc' = "done"
    /\ LET id == fusion_id(treq.sentinel_scenes, treq.landsat_scenes)
       IN  IF tres = None
           THEN /\ tres' = [success |-> FALSE, error |-> "Failed to harmonize scenes - check backend logs"]
                /\ UNCHANGED <<fused_data_store, fused_metadata_store>>
           ELSE /\ fused_data_store' = Put(fused_data_store, id, tres.data)
                /\ fused_metadata_store' = Put(fused_metadata_store, id, [bounds |-> tres.bounds, shape |-> tres.shape])
                /\ tres' = [success |-> TRUE, fusion_id |-> id, bounds |-> treq.aoi_bounds, shape |-> tres.shape,
                            num_sentinel |-> tres.num_sentinel, num_landsat |-> tres.num_landsat]
    /\ UNCHANGED <<treq, futures, sentinel_arrays, landsat_arrays, tile_cache>>
    /\ UNCHANGED <<now, cacheState, fusionState, keyState, readState, analysisState>>

\* the caller has the dict
TReturn ==
    /\ tpc = "done"
    /\ tpc' = "idle"
    /\ treq' = NoRequest
    /\ futures' = <<>>
    /\ sentinel_arrays' = <<>>
    /\ landsat_arrays' = <<>>
    /\ tres' = NoResult
    /\ UNCHANGED <<fused_data_store, fused_metadata_store, tile_cache>>
    /\ UNCHANGED <<now, cacheState, fusionState, keyState, readState, analysisState>>

\* FusionService.__init__
InitTiles ==
    /\ CacheUnused
    /\ FusionUnused
    /\ KeysUnused
    /\ ReadUnused

NextTiles ==
    \/ \E ss \in SceneLists(SentinelScenes, MaxSentinel), ls \in SceneLists(LandsatScenes, MaxLandsat) : TCall(ss, ls)
    \/ \E i \in DOMAIN futures : TDownload(i)
    \/ \E i \in DOMAIN futures : TCollect(i)
    \/ THarmonize
    \/ TStore
    \/ TReturn

SpecTiles == InitTiles /\ [][NextTiles]_vars

(***************************************************************************)
(* Properties of CacheService (checked under SpecCache).                   *)
(***************************************************************************)
\* thread t is at the return statement of a cache_result call that failed
CrFailed(t) ==
    cpc[t] = "cr_ret" /\ cres[t] = Fail

\* thread t is at the return statement of a cache_result call that succeeded
CrSucceeded(t) ==
    cpc[t] = "cr_ret" /\ cres[t] # Fail

\* C1: when cache_result reports failure, no derivative file and no index entry of
\* its key exists that was not there before the call, so no get_cached_* call
\* returns a derivative of the incomplete write.
C1_FailedWriteLeavesNothing ==
    \A t \in Threads :
        CrFailed(t) =>
            LET k == cargs[t].cache_key
            IN  /\ get_cached_full(k) # NoData => cpre[t].files["full"][k] # NoFile
                /\ get_cached_thumbnail(k) # NoData => cpre[t].files["thumb"][k] # NoFile
                /\ get_cached_preview(k) # NoData => cpre[t].files["preview"][k] # NoFile
                /\ metadata[k] # NoEntry => cpre[t].metadata[k] # NoEntry

\* entry e was older than the cutoff of t's sweep
Older(t, e) ==
    e.timestamp < cloc[t].cutoff_time

\* key k is as it was when t's sweep began: index entry and the three files
Untouched(t, k) ==
    /\ metadata[k] = cpre[t].metadata[k]
    /\ \A d \in DerivSet : files[d][k] = cpre[t].files[d][k]

\* key k is gone: no index entry and none of the three files
Removed(k) ==
    /\ metadata[k] = NoEntry
    /\ \A d \in DerivSet : files[d][k] = NoFile

\* C3 (as stated): after cleanup_old_cache every entry older than the cutoff has been
\* removed together with its three files, and every entry not older is unchanged
\* with its three files.
C3_OlderAlwaysRemoved ==
    \A t \in Threads :
        cpc[t] = "cl_ret" =>
            \A k \in CacheKeys :
                cpre[t].metadata[k] # NoEntry =>
                    IF Older(t, cpre[t].metadata[k]) THEN Removed(k) ELSE Untouched(t, k)

\* C3 (amended): after cleanup_old_cache every entry that was not older than the
\* cutoff is unchanged with its files; every older entry none of whose file removals
\* raised is removed with its three files; an older entry one of whose removals
\* raised keeps its index entry and the file that could not be removed, and each of
\* its other files is either removed or as it was.
C3_OlderRemovedUnlessRemoveFails ==
    \A t \in Threads :
        cpc[t] = "cl_ret" =>
            \A k \in CacheKeys :
                cpre[t].metadata[k] # NoEntry =>
                    IF ~Older(t, cpre[t].metadata[k]) THEN Untouched(t, k)
                    ELSE IF k \notin cloc[t].remove_failed THEN Removed(k)
                    ELSE /\ metadata[k] = cpre[t].metadata[k]
                         /\ \E d \in DerivSet : files[d][k] # NoFile
                         /\ \A d \in DerivSet : files[d][k] \in {NoFile, cpre[t].files[d][k]}

\* a sweep that removed an older entry and kept one that was exactly at the cutoff
C3_Witness ==
    \E t \in Threads :
        /\ cpc[t] = "cl_ret"
        /\ \E k1, k2 \in CacheKeys :
            /\ cpre[t].metadata[k1] # NoEntry /\ Older(t, cpre[t].metadata[k1])
            /\ \A d \in DerivSet : cpre[t].files[d][k1] # NoFile
            /\ Removed(k1)
            /\ cpre[t].metadata[k2] # NoEntry /\ cpre[t].metadata[k2].timestamp = cloc[t].cutoff_time
            /\ \A d \in DerivSet : files[d][k2] # NoFile

\* C4: the freed space a sweep reports is the sum of the sizes of exactly the files
\* it deleted.
C4_FreedEqualsDeleted ==
    \A t \in Threads :
        cpc[t] = "cl_ret" => cres[t].space_freed_mb = <<cloc[t].bytes_deleted, MB>>

InLockedBlock(t) ==
    cpc[t] \in {"cr_open", "cr_full", "cr_thumb", "cr_preview", "cr_index", "cr_ret", "cl_loop", "cl_ret"}

\* thread t is writing the derivative files of its key
WritingFiles(t) ==
    cpc[t] \in {"cr_full", "cr_thumb", "cr_preview"}

\* the index changes only in a step of the thread that holds the lock
IndexMutatedUnderLock ==
    [][metadata' # metadata => (lock # NoThread /\ InLockedBlock(lock) /\ (cpc'[lock] # cpc[lock] \/ cloc'[lock] # cloc[lock]))]_vars

\* C10 (as stated): the index is mutated only while the lock is held, and a write of
\* the derivative files of key B can start while a write for another key A is in
\* progress.
C10_WritesOfDifferentKeysOverlap ==
    \A t1, t2 \in Threads :
        (/\ t1 # t2
         /\ WritingFiles(t1)
         /\ cpc[t2] = "cr_lock"
         /\ cargs[t2].cache_key # cargs[t1].cache_key) => ENABLED CrAcquire(t2)

\* C10 (amended): the index is mutated only while the lock is held, and the
\* derivative files are written while holding the same lock, so writes for two
\* different keys are never in progress at the same time: a thread that wants to
\* write key B cannot start while another is writing key A.
C10_WritesSerialized ==
    /\ IndexMutatedUnderLock
    /\ [](\A t1, t2 \in Threads :
            /\ InLockedBlock(t1) => lock = t1
            /\ (t1 # t2 /\ WritingFiles(t1)) => ~WritingFiles(t2)
            /\ (t1 # t2 /\ WritingFiles(t1) /\ cpc[t2] = "cr_lock") => ~ENABLED CrAcquire(t2))

\* one thread is writing the files of key A while another has called cache_result
\* for key B and waits
C10_Witness ==
    \E t1, t2 \in Threads :
        /\ t1 # t2
        /\ cpc[t1] = "cr_thumb"
        /\ cpc[t2] = "cr_lock"
        /\ cargs[t2].cache_key # cargs[t1].cache_key

(***************************************************************************)
(* Properties of the cache key (checked under SpecKey).                    *)
(***************************************************************************)
\* the two requests agree in window bounds, start date, end date, cloud-cover
\* ceiling, visualization mode, reducer method, platforms and polygon geometry
SameParameters(r1, r2) ==
    /\ r1.bounds = r2.bounds
    /\ r1.start_date = r2.start_date
    /\ r1.end_date = r2.end_date
    /\ r1.cloud_cover = r2.cloud_cover
    /\ r1.visualization = r2.visualization
    /\ r1.composite_method = r2.composite_method
    /\ r1.platforms = r2.platforms
    /\ r1.geojson = r2.geojson

\* C2: two requests get the same cache key exactly when they agree in every one of
\* the eight parameters; requests that differ in any of them never share a key.
\* Stated for the key of the result cache and for the key of the file cache.
C2_KeySeparatesRequests ==
    kkeys # <<>> =>
        /\ kkeys[1] = kkeys[2] <=> SameParameters(kreq[1], kreq[2])
        /\ kkeys[3] = kkeys[4] <=> SameParameters(kreq[1], kreq[2])

(***************************************************************************)
(* Properties of create_harmonized_fusion (checked under SpecFusion).      *)
(***************************************************************************)
\* the request of thread t has taken the step with this outcome
HasStep(t, name, outcome) ==
    \E i \in DOMAIN fhist[t].steps : fhist[t].steps[i] = Step(name, outcome)

\* the request of thread t has taken a step of this name
Took(t, name) ==
    \E i \in DOMAIN fhist[t].steps : fhist[t].steps[i].step = name

\* age of the stored entry when the request looked it up
AgeAtCheck(t) ==
    fhist[t].checked_at - fhist[t].entry_at_check.timestamp

\* C6: a stored result is served, with nothing fetched or recomputed, only when its
\* entry is younger than the time-to-live of 3600 s at the lookup; when the entry is
\* at least that old the request is not answered from the cache but recomputes, and
\* a successful recomputation leaves the entry with the new result and a timestamp
\* not before the lookup.
C6_ServedOnlyWhileFresh ==
    \A t \in FThreads :
        LET e == fhist[t].entry_at_check
        IN  /\ HasStep(t, "cache", "hit") =>
                /\ e # NotCached
                /\ AgeAtCheck(t) < 3600
                /\ fpc[t] = "done"
                /\ fres[t] = e.result
                /\ ~Took(t, "geometry") /\ ~Took(t, "fetch_sentinel") /\ ~Took(t, "fuse") /\ ~Took(t, "store")
            /\ (Took(t, "cache") /\ e # NotCached /\ AgeAtCheck(t) < 3600) => HasStep(t, "cache", "hit")
            /\ (Took(t, "cache") /\ e # NotCached /\ AgeAtCheck(t) >= 3600) =>
                /\ HasStep(t, "cache", "miss")
                /\ (fpc[t] = "done" /\ fres[t].success) =>
                    /\ Took(t, "fetch_sentinel") /\ Took(t, "fuse") /\ Took(t, "download")
                    /\ fusion_cache[KeyOf(t)] # NotCached
                    /\ fusion_cache[KeyOf(t)].result = fres[t]
                    /\ fusion_cache[KeyOf(t)].timestamp >= fhist[t].checked_at
                    /\ fusion_cache[KeyOf(t)].timestamp <= now

\* a request found an entry exactly one time-to-live old, recomputed and stored anew
C6_Witness ==
    \E t \in FThreads :
        /\ fpc[t] = "done"
        /\ fhist[t].entry_at_check # NotCached
        /\ AgeAtCheck(t) = 3600
        /\ fres[t].success
        /\ fusion_cache[KeyOf(t)].timestamp = fhist[t].checked_at

\* the reason a failing step gives
ReasonOf(step) ==
    CASE step = Step("init", "failed") -> "GEE initialization failed"
      [] step = Step("geometry", "failed") -> "Invalid geometry"
      [] step.step = "fetch_landsat" -> "No imagery found for selected platforms"
      [] step = Step("fuse", "raised") -> "Internal Error"
      [] step = Step("thumb", "EEException") -> "GEE Error"
      [] step = Step("thumb", "other exception") -> "Internal Error"
      [] step = Step("download", "other status") -> "GEE Error (status)"
      [] step = Step("download", "exception") -> "Download failed"
      [] OTHER -> "no reason"

\* a success dict with every field, whose picture is on disk
CompleteSuccess(t) ==
    /\ DOMAIN fres[t] = {"success", "fusion_id", "imageUrl", "bounds", "shape", "visualization", "dataset_path"}
    /\ fres[t].success
    /\ fres[t].fusion_id = FusionId(KeyOf(t))
    /\ out_files[KeyOf(t)] # NoPicture

\* a failure dict with the reason of the step that failed
FailureWithReason(t) ==
    /\ DOMAIN fres[t] = {"success", "error"}
    /\ ~fres[t].success
    /\ fres[t].error # "no reason"
    /\ fres[t].error = ReasonOf(fhist[t].steps[Len(fhist[t].steps)])

\* C7: create_harmonized_fusion always ends in exactly one outcome: while it runs it
\* has returned nothing and can take its next step, whichever step fails, and when
\* it returns it returns either a complete success dict or a failure dict carrying
\* the reason of the failing step.
C7_OneOutcome ==
    \A t \in FThreads :
        /\ fpc[t] \in {"idle", "init", "cache", "geometry", "fetch_sentinel", "fetch_landsat", "fuse", "export", "thumb", "download", "store", "done"}
        /\ fpc[t] = "done" => (CompleteSuccess(t) \/ FailureWithReason(t))
        /\ fpc[t] \notin {"idle", "done"} => (fres[t] = NoResult /\ ENABLED FStep(t))

\* a request that ended in the outer except after getThumbURL raised
C7_Witness ==
    \E t \in FThreads :
        /\ fpc[t] = "done"
        /\ HasStep(t, "thumb", "other exception")
        /\ fres[t] = [success |-> FALSE, error |-> "Internal Error"]

\* the result is the no-imagery failure
NoImageryResult(t) ==
    fres[t] = [success |-> FALSE, error |-> "No imagery found for selected platforms"]

RenderFailed(t) ==
    \/ HasStep(t, "export", "other error")
    \/ floc[t].dataset_result_path.kind = "Error: Region too large for all attempts."
    \/ HasStep(t, "thumb", "EEException")
    \/ HasStep(t, "thumb", "other exception")
    \/ HasStep(t, "download", "other status")
    \/ HasStep(t, "download", "exception")

\* C9: when thumbnail URL generation, the image download or the GeoTIFF export of a
\* request fails, the request returns a failure and stores no result for its key.
C9_RenderFailureIsFatal ==
    \A t \in FThreads :
        (fpc[t] = "done" /\ RenderFailed(t)) =>
            /\ ~fres[t].success
            /\ fusion_cache[KeyOf(t)] = fhist[t].entry_at_call

(***************************************************************************)
(* Properties of the cache reads (checked under SpecRead).                 *)
(***************************************************************************)
\* what the read <op>(k) returns from the files fs and the index md
ReadFrom(op, k, fs, md) ==
    IF op = "status"
    THEN IF md[k] = NoEntry THEN [exists |-> FALSE] ELSE StatusOf(md[k])
    ELSE IF fs[DirOf(op)][k] # NoFile THEN fs[DirOf(op)][k] ELSE NoData

\* C11: while a cache_result call for key B is inside its locked block, a read of any
\* other key A (full, preview, thumbnail, status) can start and can take each of its
\* steps without waiting for the lock, and a read of A that ran wholly during that
\* write returns what it would have returned before the write began.
C11_ReadsPassWritesOfOtherKeys ==
    /\ \A t \in Threads :
        (lock = t /\ cargs[t].op = "cache_result") =>
            \A k \in CacheKeys \ {cargs[t].cache_key} :
                /\ rpc = "idle" => \A op \in ReadOps : ENABLED RCall(op, k)
                /\ (rpc # "idle" /\ rargs.cache_key = k) => ENABLED RStep
    /\ (rpc = "done" /\ rw # NoWriter) =>
            rres = ReadFrom(rargs.op, rargs.cache_key, rw.pre.files, rw.pre.metadata)

\* a read of a key that is in the cache finished with its data while a write for the
\* other key had saved its full image and was not yet done
C11_Witness ==
    /\ rpc = "done"
    /\ rw # NoWriter
    /\ rargs.op = "full"
    /\ rres # NoData
    /\ cpc[rw.writer] = "cr_thumb"
    /\ files["full"][rw.cache_key] # NoFile

(***************************************************************************)
(* Properties of two callers with identical inputs (checked under SpecDup).*)
(***************************************************************************)
\* the result a single request r stores and returns when every step succeeds
ExpectedResult(r) ==
    [success |-> TRUE,
     fusion_id |-> FusionId(FusionCacheKey(r)),
     imageUrl |-> <<"/static/fusion", FusionId(FusionCacheKey(r))>>,
     bounds |-> LeafletBounds(r.bounds),
     shape |-> 501,
     visualization |-> r.visualization,
     dataset_path |-> NoPath]

\* the picture a single request r without polygon leaves in the output directory
ExpectedPicture(r) ==
    [region |-> [kind |-> "rectangle", of |-> r.bounds], visualization |-> r.visualization]

\* the index entry a single cache_result(key, img, md) stores, but for its timestamp
ExpectedEntry(img, md, timestamp) ==
    [timestamp |-> timestamp,
     bounds |-> md.bounds, start_date |-> md.start_date, end_date |-> md.end_date,
     visualization |-> md.visualization, platforms |-> md.platforms,
     original_size |-> OriginalSize(img),
     full_size_bytes |-> FileSize("full", img),
     thumb_size_bytes |-> FileSize("thumb", img),
     preview_size_bytes |-> FileSize("preview", img),
     compression_ratio |-> <<FileSize("full", img), ImageLen(img)>>]

Pixels(g) ==
    {<<i, j>> : i \in DOMAIN g.data, j \in DOMAIN g.data[1]}

\* the two bands an index call divides
FirstBand ==
    CASE ain.op \in {"calculate_ndvi", "calculate_ndwi"} -> ain.x
      [] ain.op = "compute_ndvi" -> ain.fused_tensor[7]
      [] ain.op = "compute_ndwi" -> ain.fused_tensor[2]

SecondBand ==
    CASE ain.op \in {"calculate_ndvi", "calculate_ndwi"} -> ain.y
      [] ain.op = "compute_ndvi" -> ain.fused_tensor[3]
      [] ain.op = "compute_ndwi" -> ain.fused_tensor[7]

\* -1 <= v <= 1
InUnitRange(v) ==
    IsFinite(v) /\ ~Less(v, Whole(-1)) /\ ~Less(Whole(1), v)

\* the bands give a valid index at this pixel: both values are numbers and the
\* denominator is not zero
ValidIndex(a, b) ==
    IsFinite(a) /\ IsFinite(b) /\ Add(a, b) # Whole(0)

\* the normalized difference of two numbers with nonzero sum, clipped to [-1, 1]
IndexOf(a, b) ==
    Clip(Div(Sub(a, b), Add(a, b)), Whole(-1), Whole(1))

\* C13: fuse_gap_fill returns at every pixel the Sentinel index where the Sentinel
\* bands give a valid index, whatever the Landsat bands hold, and the Landsat index
\* at every pixel where the Sentinel bands give none (a nan input or a zero
\* denominator).
C13_GapFillTakesSecondaryWhereInvalid ==
    (ain.op = "fuse_gap_fill" /\ aout # NoResult) =>
        \A p \in Pixels(aout) :
            LET s_nir == ain.sentinel_nir.data[p[1]][p[2]]
                s_red == ain.sentinel_red.data[p[1]][p[2]]
            IN  IF ValidIndex(s_nir, s_red)
                THEN aout.data[p[1]][p[2]] = IndexOf(s_nir, s_red)
                ELSE aout.data[p[1]][p[2]] = calculate_ndvi(ain.landsat_nir, ain.landsat_red).data[p[1]][p[2]]

\* C18: every index function (calculate_ndvi, calculate_ndwi, compute_ndvi,
\* compute_ndwi) returns 0 at a pixel where the denominator is 0, 0 where both
\* bands are equal and nonzero, and a value within [-1, 1] at every pixel.
C18_IndexZeroAndBounded ==
    (ain.op \in {"calculate_ndvi", "calculate_ndwi", "compute_ndvi", "compute_ndwi"} /\ aout # NoResult) =>
        \A p \in Pixels(aout) :
            LET a == FirstBand.data[p[1]][p[2]]
                b == SecondBand.data[p[1]][p[2]]
                v == aout.data[p[1]][p[2]]
            IN  /\ Add(a, b) = Whole(0) => v = Whole(0)
                /\ (a = b /\ IsFinite(a) /\ a # Whole(0)) => v = Whole(0)
                /\ InUnitRange(v)

\* the reducer call has returned an array for a list of arrays of one shape
Reduced(op) ==
    /\ ain.op = op
    /\ aout # NoResult
    /\ Len(ain.images) > 0
    /\ SameShapes(ain.images)

\* the mask value is truthy
Truthy(v) ==
    v # Whole(0)

\* C14: fuse_best_pixel with quality masks returns at every pixel the value of the
\* first image in input order whose mask is truthy there, and the median of all
\* images at the pixel where no mask is truthy; without masks it returns the
\* elementwise median.
C14_BestPixelFirstTruthyElseMedian ==
    Reduced("fuse_best_pixel") =>
        \A p \in Pixels(ain.images[1]) :
            LET usable == {k \in DOMAIN ain.quality_masks : Truthy(ain.quality_masks[k].data[p[1]][p[2]])}
            IN  IF usable # {}
                THEN \E k \in usable :
                        /\ \A m \in usable : k <= m
                        /\ aout.data[p[1]][p[2]] = ain.images[k].data[p[1]][p[2]]
                ELSE aout.data[p[1]][p[2]] = MedianOf(Column(ain.images, p[1], p[2]))

\* the call raised a ValueError about the shapes
ShapeMismatchRaised ==
    /\ "raised" \in DOMAIN aout
    /\ aout.raised = "ValueError"
    /\ aout.message \in {"All images must have the same shape", "all input arrays must have the same shape"}

\* C15: fuse_mean, fuse_median and fuse_best_pixel raise a shape error whenever the
\* arrays of their list do not all have one shape, and return no array then.
C15_MismatchedShapesRaise ==
    (ain.op \in {"fuse_mean", "fuse_median", "fuse_best_pixel"} /\ aout # NoResult /\ ~SameShapes(ain.images)) =>
        ShapeMismatchRaised

\* fuse_mean was called with a 1 x 2 array followed by a 1 x 1 array
C15_Witness ==
    /\ ain.op = "fuse_mean"
    /\ aout # NoResult
    /\ Len(ain.images) = 2
    /\ Shape(ain.images[1]) = <<1, 2>>
    /\ Shape(ain.images[2]) = <<1, 1>>

\* the permutations of 1..n
Reorderings(n) ==
    {f \in [1..n -> 1..n] : \A a \in 1..n, b \in 1..n : f[a] = f[b] => a = b}

\* C16: fuse_mean and fuse_median return the same array, element type included, for
\* every reordering of a same-shape list.
C16_MeanMedianIgnoreOrder ==
    /\ Reduced("fuse_mean") =>
        \A f \in Reorderings(Len(ain.images)) : fuse_mean([k \in DOMAIN ain.images |-> ain.images[f[k]]]) = aout
    /\ Reduced("fuse_median") =>
        \A f \in Reorderings(Len(ain.images)) : fuse_median([k \in DOMAIN ain.images |-> ain.images[f[k]]]) = aout

\* C17: for a same-shape list, fuse_median of an odd number of arrays holds the
\* middle value at each pixel, fuse_mean holds the arithmetic mean at each pixel,
\* and the mean of arrays all equal to a constant c is c.
C17_MedianMiddleMeanExact ==
    /\ (Reduced("fuse_median") /\ Len(ain.images) % 2 = 1) =>
        \A p \in Pixels(aout) :
            aout.data[p[1]][p[2]] = KthSmallest(Column(ain.images, p[1], p[2]), (Len(ain.images) + 1) \div 2)
    /\ Reduced("fuse_mean") =>
        \A p \in Pixels(aout) :
            /\ aout.data[p[1]][p[2]] = Div(SumOf(Column(ain.images, p[1], p[2]), Len(ain.images)), Whole(Len(ain.images)))
            /\ \A c \in IntPixels \cup FloatPixels :
                (\A k \in DOMAIN ain.images : ain.images[k].data[p[1]][p[2]] = c) => aout.data[p[1]][p[2]] = c

\* the height and width of the source of a resampling call
OwnShape(source) ==
    <<Len(Planes(source)[1]), Len(Planes(source)[1][1])>>

\* a resampling call to the source's own height and width
SameShapeResample ==
    /\ ain.op \in {"GEEFusionService.resample_to_target", "FusionService.resample_to_target"}
    /\ ain.target_shape = OwnShape(ain.source)

\* C19: resampling an array to its own height and width returns, for every
\* method, an array equal to the source, and the call leaves the source as it was.
C19_ResampleToOwnShapeIsIdentity ==
    [][(SameShapeResample /\ aout' # aout) => (aout' = ain.source /\ ain' = ain)]_vars

\* a resampling of a two-plane array to its own height and width has returned
C19_Witness ==
    /\ SameShapeResample
    /\ ain.op = "GEEFusionService.resample_to_target"
    /\ ndim(ain.source) = 3
    /\ aout # NoResult

(***************************************************************************)
(* Properties of the gee-harmonize endpoint.                               *)
(***************************************************************************)
\* four numbers with west < east and south < north
ValidWindow(bounds) ==
    /\ Len(bounds) = 4
    /\ bounds[1] < bounds[3]
    /\ bounds[2] < bounds[4]

\* the steps that read or write the result cache, build the geometry or fetch a source
WorkSteps == {"cache", "geometry", "fetch_sentinel", "fetch_landsat", "store"}

\* C20: a request with dates whose window is not four numbers with west < east and
\* south < north takes no step that reads or writes the cache, builds the geometry
\* or fetches a source, and its response is the 400 error about the bounds.
C20_InvalidWindowRejectedFirst ==
    \A t \in DOMAIN fpc :
        (freq[t] # NoRequest /\ freq[t].start_date # "" /\ ~ValidWindow(freq[t].bounds)) =>
            /\ \A i \in DOMAIN fhist[t].steps : fhist[t].steps[i].step \notin WorkSteps
            /\ fpc[t] = "responded" => fres[t] = HTTPException(400, "Bounds required as [west, south, east, north]")

\* the request of t ended in the service's no-imagery failure and the endpoint has answered
NoImageryAnswered(t) ==
    /\ fpc[t] = "responded"
    /\ Len(fhist[t].steps) > 0
    /\ fhist[t].steps[Len(fhist[t].steps)].step = "fetch_landsat"
    /\ NoImageryFound(floc[t].sentinel_image, floc[t].landsat_image)

\* C21: a request that fails because neither platform gave an image is answered by
\* the endpoint with status 404, not with the status 500 of the other failures.
C21_NoImageryIsNotFound ==
    \A t \in DOMAIN fpc :
        NoImageryAnswered(t) => ("status_code" \in DOMAIN fres[t] /\ fres[t].status_code = 404)

(***************************************************************************)
(* Properties of the geometry of a fusion request.                         *)
(***************************************************************************)
\* the geometry a request asks for: its polygon, or its rectangle without polygon
GeometryAskedFor(r) ==
    IF HasGeoJSON(r)
    THEN [kind |-> "polygon",
          of |-> IF GeometryAccepted(GeomData(r.geojson)) THEN GeomData(r.geojson).coordinates ELSE "rejected"]
    ELSE [kind |-> "rectangle", of |-> r.bounds]

\* C22: a request with a polygon resolves to the polygon, a request without one to
\* the rectangle of its bounds, and that geometry is the one the sources are
\* filtered with, the fused image is clipped to and the picture is rendered for.
C22_PolygonTakesPrecedence ==
    \A t \in DOMAIN fpc :
        /\ floc[t].geometry # NoGeometry => floc[t].geometry = GeometryAskedFor(freq[t])
        /\ floc[t].filtered_by # NoGeometry => floc[t].filtered_by = GeometryAskedFor(freq[t])
        /\ floc[t].fused_image # NoFused => floc[t].fused_image.clip = GeometryAskedFor(freq[t])
        /\ fpc[t] = "store" => out_files[KeyOf(t)].region = GeometryAskedFor(freq[t])

\* a request with bounds and a polygon has fetched, fused and written its picture
C22_Witness ==
    \E t \in DOMAIN fpc :
        /\ fpc[t] = "store"
        /\ HasGeoJSON(freq[t])
        /\ floc[t].filtered_by.kind = "polygon"
        /\ out_files[KeyOf(t)].region.kind = "polygon"

(***************************************************************************)
(* Agreement of the metadata index with the derivative directories.        *)
(***************************************************************************)
\* no cache_result and no cleanup_old_cache call is in progress
NoCallInProgress ==
    \A t \in DOMAIN cpc : cpc[t] = "idle"

\* C23: whenever no cache_result or cleanup_old_cache call is in progress, a key has
\* an index entry if and only if its full, thumbnail and preview files all exist,
\* also after calls in which a file write or a file removal failed.
C23_IndexAgreesWithFiles ==
    NoCallInProgress =>
        \A k \in CacheKeys : metadata[k] # NoEntry <=> \A d \in DerivSet : files[d][k] # NoFile

(***************************************************************************)
(* Order of the steps of one fusion request.                               *)
(***************************************************************************)
\* the steps that fetch a source, and the steps that write a file or the cache entry
IsFetch(s) ==
    s.step \in {"fetch_sentinel", "fetch_landsat"} /\ s.outcome # "not requested"

IsWrite(s) ==
    \/ s.step = "export" /\ s.outcome = "saved"
    \/ s.step = "download" /\ s.outcome = "200"
    \/ s.step = "store"

\* the phase of a step: resolve geometry, fetch sources, fuse and render, persist
Phase(s) ==
    CASE s.step \in {"init", "cache"} -> 0
      [] s.step = "geometry" -> 1
      [] s.step \in {"fetch_sentinel", "fetch_landsat"} -> 2
      [] s.step \in {"fuse", "thumb"} -> 3
      [] s.step \in {"export", "download", "store"} -> 4

\* C24: the steps of one request occur in the order resolve geometry, fetch
\* sources, fuse and render, persist; a source is fetched only after the geometry
\* was resolved, and a file is written or a cache entry stored only after fusion
\* and rendering succeeded.
C24_StepsInPipelineOrder ==
    \A t \in DOMAIN fpc :
        LET steps == fhist[t].steps
        IN  \A i \in DOMAIN steps :
                /\ \A j \in 1..(i - 1) : Phase(steps[j]) <= Phase(steps[i])
                /\ IsFetch(steps[i]) =>
                    \E j \in 1..(i - 1) : steps[j].step = "geometry" /\ steps[j].outcome # "failed"
                /\ IsWrite(steps[i]) =>
                    /\ \E j \in 1..(i - 1) : steps[j] = Step("fuse", "ok")
                    /\ \E j \in 1..(i - 1) : steps[j] = Step("thumb", "url")

(***************************************************************************)
(* The GeoTIFF export loop of a request with create_dataset.               *)
(***************************************************************************)
\* the outcomes of the export attempts of t so far, in order
ExportAttempts(t) ==
    SelectSeq(fhist[t].steps, LAMBDA s : s.step = "export")

\* C28: the export is attempted at 10, 30, 100, 250, 500 m in that order, a coarser
\* scale only after the attempt before it failed on the request size; the loop ends
\* at the first success or the first other error and after at most five attempts;
\* dataset_path is then the saved file, the error text, or the region-too-large
\* message when all five attempts failed on the size.
C28_ExportScalesInOrder ==
    \A t \in DOMAIN fpc :
        LET tried == ExportAttempts(t)
            n == Len(tried)
        IN  /\ n <= 5
            /\ \A i \in 1..(n - 1) : tried[i].outcome = "too large"
            /\ fpc[t] = "export" =>
                /\ \A i \in 1..n : tried[i].outcome = "too large"
                /\ n < 5
                /\ scales_to_try[floc[t].scale_i] = <<10, 30, 100, 250, 500>>[n + 1]
                /\ floc[t].dataset_result_path = NoPath
            /\ (n > 0 /\ fpc[t] # "export") =>
                CASE tried[n].outcome = "saved" ->
                        floc[t].dataset_result_path = [kind |-> "saved", scale |-> <<10, 30, 100, 250, 500>>[n]]
                  [] tried[n].outcome = "other error" ->
                        floc[t].dataset_result_path.kind = "Error"
                  [] tried[n].outcome = "too large" ->
                        /\ n = 5
                        /\ floc[t].dataset_result_path.kind = "Error: Region too large for all attempts."

\* an export that was saved at 100 m after two attempts failed on the size
C28_Witness ==
    \E t \in DOMAIN fpc :
        /\ Len(ExportAttempts(t)) = 3
        /\ floc[t].dataset_result_path = [kind |-> "saved", scale |-> 100]

(***************************************************************************)
(* FusionService.harmonize_tiles and create_harmonized_tiles               *)
(***************************************************************************)
\* the composite of the request has been computed
Composited ==
    tpc \in {"harmonized", "done"}

\* C25: alignment and median compositing start only after every download task
\* submitted for the request has completed, successfully or not: once the composite
\* is computed no future of the request is outstanding, and the arrays composited
\* are all the arrays the downloads returned.
C25_FanInBarrier ==
    Composited =>
        /\ \A i \in DOMAIN futures : futures[i].state = "collected"
        /\ Len(sentinel_arrays) + Len(landsat_arrays)
              = Cardinality({i \in DOMAIN futures : futures[i].result # None})

\* a request of three tasks has been composited
C25_Witness ==
    /\ tpc = "harmonized"
    /\ Len(futures) = 3
    /\ \E i \in DOMAIN futures : futures[i].result = None
    /\ tres # None

\* a download of the request returned None
SomeFetchFailed ==
    \E i \in DOMAIN futures : futures[i].result = None

\* C26: an observation whose fetch fails is attempted exactly once, is left out of
\* the stacks, and the request fails only when the stacks of all platforms are
\* empty: with a failed fetch, harmonize_tiles returns None exactly when no array
\* was collected.
C26_FailedFetchIsDropped ==
    (tpc = "harmonized" /\ SomeFetchFailed) =>
        /\ \A i \in DOMAIN futures : futures[i].runs = 1
        /\ Len(sentinel_arrays) + Len(landsat_arrays)
              = Cardinality({i \in DOMAIN futures : futures[i].result # None})
        /\ tres = None <=> (sentinel_arrays = <<>> /\ landsat_arrays = <<>>)

\* fuse_sensors gives every band of both sensors the height and width of the window
FuseSensorsAligned ==
    \A sentinel_array \in FuseSources, landsat_array \in FuseSources, window_size \in WindowSizes :
        ShapeCHW(fuse_sensors(sentinel_array, landsat_array, window_size))
            = <<Len(sentinel_array.bands) + Len(landsat_array.bands), window_size, window_size>>

\* the array whose shape is the reference: the first Sentinel array collected, or
\* without Sentinel arrays the first Landsat array
Master ==
    IF sentinel_arrays # <<>> THEN sentinel_arrays[1] ELSE landsat_arrays[1]

\* C27: the reference shape is that of a Sentinel tile whenever a Sentinel tile was
\* fetched and otherwise that of the first Landsat tile; whenever harmonize_tiles
\* returns a mosaic, the mosaic and every array of the composite stack have the
\* master's shape, so arrays of another shape are never combined; fuse_sensors
\* brings both sensors to the window's height and width before it concatenates them.
C27_MasterAlignment ==
    (tpc = "harmonized" /\ tres # None) =>
        /\ tres.shape = ShapeHWC(Master)
        /\ ShapeHWC(tres.data) = ShapeHWC(Master)
        /\ \A k \in DOMAIN Matching(AllArrays(sentinel_arrays, landsat_arrays)) :
              ShapeHWC(Matching(AllArrays(sentinel_arrays, landsat_arrays))[k]) = ShapeHWC(Master)
        /\ FuseSensorsAligned

\* a mosaic of a Sentinel tile and a Landsat tile of another height and width
C27_Witness ==
    /\ tpc = "harmonized"
    /\ tres # None
    /\ sentinel_arrays # <<>>
    /\ landsat_arrays # <<>>
    /\ HeightWidth(landsat_arrays[1]) # HeightWidth(sentinel_arrays[1])

\* the arrays downloaded for a source type, in the order the tasks were submitted
SubmittedArrays(source_type) ==
    LET downloaded == SelectSeq(futures, LAMBDA future : future.source_type = source_type /\ future.result # None)
    IN  [k \in DOMAIN downloaded |-> downloaded[k].result]

\* C29: the outcome of harmonize_tiles does not depend on the order in which the
\* downloads complete: it is the outcome for the same download results taken in
\* the order of submission.
C29_CompletionOrderIrrelevant ==
    tpc = "harmonized" =>
        tres = Harmonized(treq, SubmittedArrays("sentinel"), SubmittedArrays("landsat"))

\* scene_ids of a request
SceneIds(sentinel_scenes, landsat_scenes) ==
    [k \in DOMAIN (sentinel_scenes \o landsat_scenes) |-> (sentinel_scenes \o landsat_scenes)[k].id]

\* the two lists hold the same ids, each as often as the other
SameIdsCounted(ids, others) ==
    \A id \in {Alphabet[k] : k \in DOMAIN Alphabet} :
        Cardinality({i \in DOMAIN ids : ids[i] = id}) = Cardinality({i \in DOMAIN others : others[i] = id})

\* the two lists hold the same set of ids
SameIdSet(ids, others) ==
    {ids[i] : i \in DOMAIN ids} = {others[i] : i \in DOMAIN others}

\* both stores hold the same fusion ids
StoresAgree ==
    DOMAIN fused_data_store = DOMAIN fused_metadata_store

\* the call has returned the success dict
Stored ==
    /\ tpc = "done"
    /\ tres.success

\* a failed harmonization returns success = false and leaves both stores as they
\* are; a successful one writes the data and its metadata under the returned id
StoreStep ==
    tpc = "harmonized" =>
        IF tres = None
        THEN /\ ~tres'.success
             /\ UNCHANGED <<fused_data_store, fused_metadata_store>>
        ELSE /\ tres'.success
             /\ fused_data_store' = Put(fused_data_store, tres'.fusion_id, tres.data)
             /\ fused_metadata_store' = Put(fused_metadata_store, tres'.fusion_id, [bounds |-> tres.bounds, shape |-> tres.shape])

====
